---- MODULE Spec2Model ----
(***************************************************************************)
(* A model of the solar-system renderer of proyecto3 (src/main.rs): the    *)
(* flight dynamics of the frame loop, the chase camera, and the depth-     *)
(* tested rasterisers.                                                     *)
(*                                                                         *)
(* Numbers.  The program computes in f32.  The model computes in fixed     *)
(* point: a length or speed x is the integer nearest to x * Scale, an      *)
(* angle a is the integer nearest to a * AScale, a time is a number of     *)
(* milliseconds.  Every value the program stores is rounded to the grid    *)
(* with round-to-nearest, ties to even, as IEEE arithmetic rounds.         *)
(*                                                                         *)
(* Specifications.                                                         *)
(*   Spec         the frame loop step by step: input, accelerate, warp_to, *)
(*                update, camera                                           *)
(*   SpecMethods  accelerate and update called on sampled ship states      *)
(*   SpecAngle    angle_difference and Camera::update on sampled angles    *)
(*   SpecDraw     render_sphere and draw_line pixel by pixel               *)
(*   SpecOrder    two depth-tested draws applied in both orders            *)
(*   SpecFrame    the frame loop with its clear, draws and presentation    *)
(* The screen of the raster specifications is WIDTH x HEIGHT pixels, far   *)
(* smaller than the program's; what project_vertex returns for a centre or *)
(* an end point is drawn from sample sets.                                 *)
(***************************************************************************)
EXTENDS Integers, Sequences, FiniteSets, TLC

VARIABLES
    spaceship,    \* Spaceship: position, velocity, yaw, pitch, roll, target_roll
    camera,       \* Camera: smoothed_position, smoothed_yaw, smoothed_pitch
    planets,      \* Vec<Planet>
    time,         \* elapsed time, ms
    dt,           \* this frame's dt, ms
    keys,         \* the keys the window reports down / pressed this frame
    show_orbits,  \* main's show_orbits
    pc,           \* position in the frame loop
    step,         \* index inside the step pc names (which key, which warp)
    frame,        \* frames completed
    call,         \* the call of a Spaceship method the last step made, if it made one
    buffer,       \* the colour buffer, one u32 per pixel
    z_buffer,     \* the depth buffer, one f32 per pixel
    draw,         \* the draw in progress: its arguments and the position of its loop
    last,         \* what the last step did to the buffers: its write, or its whole draw
    stamp,        \* for each pixel: the frame and the kind of the last write to its entries
    log,          \* the phases of this frame done so far, and the bodies drawn
    visible,      \* the draws of this frame that reached the buffers
    file,         \* the model file load_from_file is given: whether it opens, and its lines
    line_no,      \* the lines of the file read so far
    model,        \* the Model under construction: vertices and faces
    result        \* how load_from_file stands: running, Ok, Err, or panicked

raster == <<buffer, z_buffer, draw, last, stamp, log, visible>>

world == <<spaceship, camera, planets, time, dt, keys, show_orbits, pc, frame, call>>

loader == <<file, line_no, model, result>>

vars == <<spaceship, camera, planets, time, dt, keys, show_orbits, pc, step, frame, call,
          buffer, z_buffer, draw, last, stamp, log, visible, file, line_no, model, result>>

----------------------------------------------------------------------------
(* Bounds of the model *)

Scale == 100          \* grid points per unit of length
AScale == 1000        \* grid points per radian
MaxFrames == 2        \* frames taken step by step, at most
WarmFrames == 16      \* whole frames flown with the same keys held, at most
WarmStride == 4       \* the whole frames are flown in runs of this many, or all of them
MaxCalls == 1         \* method calls in a behaviour of SpecMethods
WIDTH == 4            \* pixels in a row of the screen (the program's is 1280)
HEIGHT == 3           \* rows of the screen (the program's is 720)
MaxDraws == 3         \* draws in a behaviour of SpecDraw
MaxPrior == 1         \* draws made before the pair of draws SpecOrder compares
NumStars == 5         \* stars of the starfield (the program draws 800)
MaxVisible == 2       \* spheres and lines of a frame that project onto the screen
MaxLines == 3         \* lines of a sampled model file
UsizeBits == 16       \* width of usize in the model (the program's is 64)
MaxSkies == 2         \* calls of render_skybox in a behaviour of SpecSky
MaxFragments == 3     \* spheres and lines drawn in a frame of SpecDepth

----------------------------------------------------------------------------
(* f32 arithmetic on the grid *)

Abs(x) == IF x < 0 THEN -x ELSE x

Max2(a, b) == IF a >= b THEN a ELSE b

Min2(a, b) == IF a <= b THEN a ELSE b

\* n / d rounded to the nearest integer, ties to even (d > 0)
RoundDiv(n, d) ==
    LET q == n \div d
        r == n - q * d
    IN  IF 2 * r < d THEN q
        ELSE IF 2 * r > d THEN q + 1
        ELSE IF q % 2 = 0 THEN q ELSE q + 1

RECURSIVE SqrtSearch(_, _, _)
SqrtSearch(n, lo, hi) ==
    IF lo >= hi THEN lo
    ELSE LET mid == (lo + hi + 1) \div 2
         IN  IF mid * mid <= n THEN SqrtSearch(n, mid, hi)
             ELSE SqrtSearch(n, lo, mid - 1)

\* floor of the square root
ISqrt(n) == SqrtSearch(n, 0, Min2(n, 46340))

\* f32::sqrt: the square root rounded to the nearest grid point
FSqrt(n) ==
    LET r == ISqrt(n)
    IN  IF n - r * r > r THEN r + 1 ELSE r

\* the grid value of the literal n/d (a length, a speed)
Fx(n, d) == RoundDiv(n * Scale, d)

\* the grid value of the literal n/d radians
Ax(n, d) == RoundDiv(n * AScale, d)

PI == Ax(355, 113)

TwoPI == 2 * PI

\* f32::sin of an angle, as a grid value (Bhaskara's rational approximation)
SinHalf(x) ==
    LET q == x * (PI - x)
        num == q \div 64
        den == (5 * PI * PI - 4 * q) \div 64
    IN  RoundDiv(Scale * 16 * num, den)

Sin(a) ==
    LET y == a % TwoPI
    IN  IF y <= PI THEN SinHalf(y) ELSE -SinHalf(y - PI)

Cos(a) == Sin(a + RoundDiv(PI, 2))

----------------------------------------------------------------------------
(* Vec3 *)

Vec3(x, y, z) == [x |-> x, y |-> y, z |-> z]

Dot(a, b) == a.x * b.x + a.y * b.y + a.z * b.z

\* the dot product of two grid vectors, as a grid value
FDot(a, b) == RoundDiv(Dot(a, b), Scale)

Cross(a, b) ==
    Vec3(RoundDiv(a.y * b.z - a.z * b.y, Scale),
         RoundDiv(a.z * b.x - a.x * b.z, Scale),
         RoundDiv(a.x * b.y - a.y * b.x, Scale))

Length(v) == FSqrt(Dot(v, v))

VAdd(a, b) == Vec3(a.x + b.x, a.y + b.y, a.z + b.z)

VSub(a, b) == Vec3(a.x - b.x, a.y - b.y, a.z - b.z)

\* v.mul(n/d) for a scalar n/d
VMulRatio(v, n, d) == Vec3(RoundDiv(v.x * n, d), RoundDiv(v.y * n, d), RoundDiv(v.z * n, d))

\* v.mul(s) for a grid scalar s
VMul(v, s) == VMulRatio(v, s, Scale)

Normalize(v) ==
    LET len == Length(v)
    IN  IF len > Fx(1, 10000) THEN VMulRatio(v, Scale, len)
        ELSE Vec3(0, 0, Fx(1, 1))

----------------------------------------------------------------------------
(* Spaceship *)

max_speed == Fx(25, 10)

SpaceshipNew ==
    [position |-> Vec3(0, Fx(5, 1), Fx(25, 1)),
     velocity |-> Vec3(0, 0, 0),
     yaw |-> 0, pitch |-> 0, roll |-> 0, target_roll |-> 0]

GetForward(s) ==
    Vec3(RoundDiv(Sin(s.yaw) * Cos(s.pitch), Scale),
         Sin(s.pitch),
         RoundDiv(Cos(s.yaw) * Cos(s.pitch), Scale))

GetRight(s) == Normalize(Cross(GetForward(s), Vec3(0, Fx(1, 1), 0)))

\* check_collision: some planet's centre is nearer than its scale + 2.0
CheckCollision(pos, ps) ==
    \E i \in 1..Len(ps) : Length(VSub(pos, ps[i].position)) < ps[i].scale + Fx(2, 1)

\* the easing with dt counted in hundredths of a second
RollEaseTenfold(roll, target_roll, d) == roll + RoundDiv((target_roll - roll) * 5 * d, 100)

\* self.roll += (self.target_roll - self.roll) * 5.0 * dt
RollEase(roll, target_roll, d) == roll + RoundDiv((target_roll - roll) * 5 * d, 1000)

\* update that commits the new position whatever check_collision says
ShipUpdateAlwaysCommit(s, d, ps) ==
    [s EXCEPT !.position = VAdd(s.position, VMulRatio(s.velocity, d, 1000)),
              !.velocity = VMulRatio(s.velocity, 95, 100),
              !.roll = RollEase(s.roll, s.target_roll, d)]

\* Spaceship::update(dt, planets)
ShipUpdate(s, d, ps) ==
    LET new_position == VAdd(s.position, VMulRatio(s.velocity, d, 1000))
        hit == CheckCollision(new_position, ps)
        bounced == IF hit THEN VMulRatio(s.velocity, 1, 2) ELSE s.velocity
    IN  [s EXCEPT !.position = IF hit THEN s.position ELSE new_position,
                  !.velocity = VMulRatio(bounced, 95, 100),
                  !.roll = RollEase(s.roll, s.target_roll, d)]

\* accelerate without the clamp to max_speed
AccelerateNoClamp(s, direction, speed) ==
    [s EXCEPT !.velocity = VAdd(s.velocity, VMul(direction, speed))]

\* accelerate that clamps each component to max_speed instead of the length
AccelerateClampComponents(s, direction, speed) ==
    LET w == VAdd(s.velocity, VMul(direction, speed))
    IN  [s EXCEPT !.velocity = Vec3(Max2(-max_speed, Min2(max_speed, w.x)),
                                    Max2(-max_speed, Min2(max_speed, w.y)),
                                    Max2(-max_speed, Min2(max_speed, w.z)))]

\* Spaceship::accelerate(direction, speed)
Accelerate(s, direction, speed) ==
    LET w == VAdd(s.velocity, VMul(direction, speed))
        vel_len == Length(w)
    IN  [s EXCEPT !.velocity = IF vel_len > max_speed
                               THEN VMulRatio(w, max_speed, vel_len)
                               ELSE w]

\* warp_to that keeps the velocity and the roll
WarpToKeepVelocity(s, target, target_yaw, target_pitch) ==
    [s EXCEPT !.position = target, !.yaw = target_yaw, !.pitch = target_pitch]

\* Spaceship::warp_to(target, target_yaw, target_pitch)
WarpTo(s, target, target_yaw, target_pitch) ==
    [s EXCEPT !.position = target,
              !.yaw = target_yaw,
              !.pitch = target_pitch,
              !.velocity = Vec3(0, 0, 0),
              !.roll = 0,
              !.target_roll = 0]

----------------------------------------------------------------------------
(* Camera *)

RECURSIVE WrapDown(_)
\* while diff > PI { diff -= 2.0 * PI }
WrapDown(diff) == IF diff > PI THEN WrapDown(diff - TwoPI) ELSE diff

RECURSIVE WrapUp(_)
\* while diff < -PI { diff += 2.0 * PI }
WrapUp(diff) == IF diff < -PI THEN WrapUp(diff + TwoPI) ELSE diff

\* angle_difference without its second loop
angle_difference_one_loop(target, current) == WrapDown(target - current)

\* angle_difference(target, current)
angle_difference(target, current) == WrapUp(WrapDown(target - current))

CameraNew ==
    [smoothed_position |-> Vec3(0, Fx(5, 1), Fx(25, 1)),
     smoothed_yaw |-> 0,
     smoothed_pitch |-> 0]

\* smooth_factor = 5.0 * dt; x * smooth_factor on the grid
Smooth(x, d) == RoundDiv(x * 5 * d, 1000)

\* Camera::update(spaceship, dt)
CameraUpdate(c, s, d) ==
    [smoothed_position |->
        Vec3(c.smoothed_position.x + Smooth(s.position.x - c.smoothed_position.x, d),
             c.smoothed_position.y + Smooth(s.position.y - c.smoothed_position.y, d),
             c.smoothed_position.z + Smooth(s.position.z - c.smoothed_position.z, d)),
     smoothed_yaw |-> c.smoothed_yaw + Smooth(angle_difference(s.yaw, c.smoothed_yaw), d),
     smoothed_pitch |-> c.smoothed_pitch + Smooth(s.pitch - c.smoothed_pitch, d)]

----------------------------------------------------------------------------
(* Planets and moons *)

Moon(orbit_radius, orbit_speed, size, angle) ==
    [orbit_radius |-> orbit_radius, orbit_speed |-> orbit_speed, size |-> size, angle |-> angle]

Planet(x, orbit_radius, orbit_speed, rotation_speed, scale, shader, orbit_angle, moons) ==
    [position |-> Vec3(x, 0, 0), orbit_radius |-> orbit_radius, orbit_speed |-> orbit_speed,
     rotation_speed |-> rotation_speed, scale |-> scale, shader |-> shader, rotation |-> 0,
     orbit_angle |-> orbit_angle, moons |-> moons]

\* the planet records of main
PlanetsNew ==
    << Planet(0, 0, 0, Ax(5, 100), Fx(5, 1), "Sun", 0, << >>),
       Planet(Fx(20, 1), Fx(20, 1), Ax(3, 10), Ax(5, 10), Fx(2, 1), "Earth", 0,
              << Moon(Fx(4, 1), Ax(2, 1), Fx(5, 10), 0) >>),
       Planet(Fx(35, 1), Fx(35, 1), Ax(2, 10), Ax(3, 10), Fx(4, 1), "GasGiant", Ax(15, 10),
              << Moon(Fx(7, 1), Ax(15, 10), Fx(8, 10), 0),
                 Moon(Fx(9, 1), Ax(12, 10), Fx(6, 10), PI) >>),
       Planet(Fx(50, 1), Fx(50, 1), Ax(15, 100), Ax(4, 10), Fx(3, 1), "Ice", Ax(3, 1), << >>),
       Planet(Fx(65, 1), Fx(65, 1), Ax(12, 100), Ax(6, 10), Fx(25, 10), "Desert", Ax(45, 10),
              << Moon(Fx(5, 1), Ax(18, 10), Fx(6, 10), RoundDiv(PI, 2)) >>),
       Planet(Fx(80, 1), Fx(80, 1), Ax(1, 10), Ax(35, 100), Fx(28, 10), "Lava", Ax(55, 10),
              << Moon(Fx(55, 10), Ax(2, 1), Fx(7, 10), 0) >>),
       Planet(Fx(95, 1), Fx(95, 1), Ax(8, 100), Ax(25, 100), Fx(35, 10), "Purple", Ax(5, 10),
              << Moon(Fx(6, 1), Ax(16, 10), Fx(5, 10), 0),
                 Moon(Fx(85, 10), Ax(11, 10), Fx(7, 10), RoundDiv(PI, 3)) >> ) >>

\* Moon::update(dt)
MoonUpdate(m, d) == [m EXCEPT !.angle = m.angle + RoundDiv(m.orbit_speed * d, 1000)]

\* Planet::update that recomputes the position before it advances the angle
PlanetUpdateStalePosition(p, d) ==
    [p EXCEPT !.orbit_angle = p.orbit_angle + RoundDiv(p.orbit_speed * d, 1000),
              !.rotation = p.rotation + RoundDiv(p.rotation_speed * d, 1000),
              !.position = Vec3(RoundDiv(p.orbit_radius * Cos(p.orbit_angle), Scale),
                                0,
                                RoundDiv(p.orbit_radius * Sin(p.orbit_angle), Scale)),
              !.moons = [j \in 1..Len(p.moons) |-> MoonUpdate(p.moons[j], d)]]

\* Planet::update(dt)
PlanetUpdate(p, d) ==
    LET angle == p.orbit_angle + RoundDiv(p.orbit_speed * d, 1000)
    IN  [p EXCEPT !.orbit_angle = angle,
                  !.rotation = p.rotation + RoundDiv(p.rotation_speed * d, 1000),
                  !.position = Vec3(RoundDiv(p.orbit_radius * Cos(angle), Scale),
                                    0,
                                    RoundDiv(p.orbit_radius * Sin(angle), Scale)),
                  !.moons = [j \in 1..Len(p.moons) |-> MoonUpdate(p.moons[j], d)]]

\* for planet in &mut planets { planet.update(dt) }
PlanetsUpdate(ps, d) == [i \in 1..Len(ps) |-> PlanetUpdate(ps[i], d)]

----------------------------------------------------------------------------
(* The buffers and the depth-tested draws *)

\* f32::NEG_INFINITY: below every depth
NEG_INFINITY == -1000000

Pixels == 0..(WIDTH * HEIGHT - 1)

\* the colours as they are: buffer.fill left out
KeptBuffer == buffer

\* buffer.fill(0x000000)
ClearedBuffer == [i \in Pixels |-> 0]

\* z_buffer.fill(f32::NEG_INFINITY)
ClearedZ == [i \in Pixels |-> NEG_INFINITY]

NoDraw == [kind |-> "none"]

NoWrite == [kind |-> "none"]

\* the entry of z the step from z to znew wrote, with the depth it replaced
WriteOf(kind, z, znew) ==
    IF znew = z THEN NoWrite
    ELSE LET i == CHOOSE j \in Pixels : znew[j] # z[j]
         IN  [kind |-> kind, idx |-> i, old_z |-> z[i], new_z |-> znew[i]]

NoLog == [phases |-> << >>, bodies |-> << >>]

\* a pixel's stamp: the frame of the last write to its colour, the frame of the last
\* write to its depth, what made the last write to its colour, and what made the one
\* before it
Stamp(f, zf, by, was) == [frame |-> f, zframe |-> zf, by |-> by, was |-> was]

\* vec![0u32; WIDTH * HEIGHT] and vec![f32::NEG_INFINITY; WIDTH * HEIGHT]
RasterNew ==
    /\ buffer = [i \in Pixels |-> 0]
    /\ z_buffer = [i \in Pixels |-> NEG_INFINITY]
    /\ draw = NoDraw
    /\ last = NoWrite
    /\ stamp = [i \in Pixels |-> Stamp(-1, -1, "new", "new")]
    /\ log = NoLog
    /\ visible = 0

\* Model::new()
ModelNew == [vertices |-> << >>, faces |-> << >>]

\* no file has been handed to load_from_file
LoaderNew ==
    /\ file = [exists |-> FALSE, lines |-> << >>]
    /\ line_no = 0
    /\ model = ModelNew
    /\ result = "none"

\* f32 as i32: towards zero
Trunc(v) == IF v >= 0 THEN v \div Scale ELSE -((-v) \div Scale)

\* the clamped bounding box of render_sphere; cx, cy and depth are what project_vertex
\* returned for the centre
XMin(sp) == Min2(WIDTH - 1, Max2(0, Trunc(Max2(sp.cx - sp.screen_radius * Scale, 0))))

XMax(sp) == Min2(WIDTH - 1, Max2(0, Trunc(Min2(sp.cx + sp.screen_radius * Scale, WIDTH * Scale))))

YMin(sp) == Min2(HEIGHT - 1, Max2(0, Trunc(Max2(sp.cy - sp.screen_radius * Scale, 0))))

YMax(sp) == Min2(HEIGHT - 1, Max2(0, Trunc(Min2(sp.cy + sp.screen_radius * Scale, HEIGHT * Scale))))

\* dist_sq <= r_sq at pixel (x, y)
InDisc(sp, x, y) ==
    LET dx == x * Scale - sp.cx
        dy == y * Scale - sp.cy
    IN  dx * dx + dy * dy <= (sp.screen_radius * Scale) * (sp.screen_radius * Scale)

\* pixel_depth = depth - sphere_z / WIDTH
PixelDepth(sp, x, y) ==
    LET dx == x * Scale - sp.cx
        dy == y * Scale - sp.cy
        r_sq == (sp.screen_radius * Scale) * (sp.screen_radius * Scale)
        sphere_z == FSqrt(r_sq - (dx * dx + dy * dy))
    IN  sp.depth - RoundDiv(sphere_z, WIDTH)

\* the shaded colour: the body's colour, one tone lighter on the side the light is on
SphereColor(sp, x, y) ==
    IF (x * Scale - sp.cx) * sp.light >= 0 THEN sp.color + 1 ELSE sp.color

\* the depth test of render_sphere, accepting the test at the stored depth too
SphereDepthTestOrEqual(pixel_depth, stored) == pixel_depth >= stored

\* pixel_depth > z_buffer[idx]
SphereDepthTest(pixel_depth, stored) == pixel_depth > stored

\* the body of render_sphere's loops without the depth test
SpherePixelUntested(b, z, sp, x, y) ==
    LET idx == y * WIDTH + x
    IN  IF InDisc(sp, x, y) /\ idx \in Pixels
        THEN [buffer |-> [b EXCEPT ![idx] = SphereColor(sp, x, y)],
              z_buffer |-> [z EXCEPT ![idx] = PixelDepth(sp, x, y)]]
        ELSE [buffer |-> b, z_buffer |-> z]

\* the body of render_sphere's loops at pixel (x, y)
SpherePixel(b, z, sp, x, y) ==
    LET idx == y * WIDTH + x
        pixel_depth == PixelDepth(sp, x, y)
    IN  IF InDisc(sp, x, y) /\ idx \in Pixels /\ SphereDepthTest(pixel_depth, z[idx])
        THEN [buffer |-> [b EXCEPT ![idx] = SphereColor(sp, x, y)],
              z_buffer |-> [z EXCEPT ![idx] = pixel_depth]]
        ELSE [buffer |-> b, z_buffer |-> z]

\* render_sphere as it enters its loops
SphereStart(sp) ==
    [kind |-> "sphere", sp |-> sp, x |-> XMin(sp), y |-> YMin(sp)]

\* the loop position after (x, y): for y in y_min..=y_max { for x in x_min..=x_max
SphereAdvance(d) ==
    IF d.x < XMax(d.sp) THEN [d EXCEPT !.x = d.x + 1]
    ELSE IF d.y < YMax(d.sp) THEN [d EXCEPT !.x = XMin(d.sp), !.y = d.y + 1]
    ELSE NoDraw

RECURSIVE SphereLoop(_, _, _)
\* render_sphere's loops from the position d on
SphereLoop(b, z, d) ==
    IF d.kind = "none" THEN [buffer |-> b, z_buffer |-> z]
    ELSE LET r == SpherePixel(b, z, d.sp, d.x, d.y)
         IN  IF r.z_buffer # z THEN SphereLoop(r.buffer, r.z_buffer, SphereAdvance(d))
             ELSE SphereLoop(b, z, SphereAdvance(d))

\* render_sphere, whole, for a centre project_vertex accepts
RenderSphere(b, z, sp) == SphereLoop(b, z, SphereStart(sp))

\* the depth test of draw_line, accepting the test at the stored depth too
LineDepthTestOrEqual(zl, stored) == zl >= stored

\* z > z_buffer[idx]
LineDepthTest(zl, stored) == zl > stored

\* the width of an i32 in the model; the program's is 32
I32Bits == 8

I32_MIN == -(2 ^ (I32Bits - 1))

I32_MAX == 2 ^ (I32Bits - 1) - 1

InI32(v) == v >= I32_MIN /\ v <= I32_MAX

\* the i32 a build without overflow checks keeps of the exact result v
Wrap(v) == ((v - I32_MIN) % (2 ^ I32Bits)) + I32_MIN

\* (a - b).abs() as a build without overflow checks computes it
AbsDiff(a, b) == Wrap(Abs(Wrap(a - b)))

\* draw_line as it enters its loop
LineStart(ln) ==
    LET dx == AbsDiff(ln.x1, ln.x0)
        dy == AbsDiff(ln.y1, ln.y0)
    IN  [kind |-> "line", ln |-> ln, dx |-> dx, dy |-> dy,
         sx |-> IF ln.x0 < ln.x1 THEN 1 ELSE -1,
         sy |-> IF ln.y0 < ln.y1 THEN 1 ELSE -1,
         err |-> Wrap(dx - dy), x |-> ln.x0, y |-> ln.y0,
         steps |-> Max2(Max2(dx, dy), 1), step |-> 0]

\* an operation of draw_line's first lines leaves the i32 range
LineStartOverflows(ln) ==
    \/ ~InI32(ln.x1 - ln.x0)
    \/ ~InI32(Abs(Wrap(ln.x1 - ln.x0)))
    \/ ~InI32(ln.y1 - ln.y0)
    \/ ~InI32(Abs(Wrap(ln.y1 - ln.y0)))
    \/ ~InI32(AbsDiff(ln.x1, ln.x0) - AbsDiff(ln.y1, ln.y0))

OnScreen(x, y) == x >= 0 /\ x < WIDTH /\ y >= 0 /\ y < HEIGHT

\* z = z0 + (z1 - z0) * t with t = step / steps
LineDepth(d) == d.ln.z0 + RoundDiv((d.ln.z1 - d.ln.z0) * d.step, d.steps)

\* the writes of one iteration without the depth test: the last line drawn shows
LinePixelUntested(b, z, d) ==
    LET idx == d.y * WIDTH + d.x
    IN  IF OnScreen(d.x, d.y)
        THEN [buffer |-> [b EXCEPT ![idx] = d.ln.color],
              z_buffer |-> [z EXCEPT ![idx] = LineDepth(d)]]
        ELSE [buffer |-> b, z_buffer |-> z]

\* the writes of one iteration of draw_line's loop
LinePixel(b, z, d) ==
    LET idx == d.y * WIDTH + d.x
    IN  IF OnScreen(d.x, d.y) /\ LineDepthTest(LineDepth(d), z[idx])
        THEN [buffer |-> [b EXCEPT ![idx] = d.ln.color],
              z_buffer |-> [z EXCEPT ![idx] = LineDepth(d)]]
        ELSE [buffer |-> b, z_buffer |-> z]

\* the error term and the position after one Bresenham update, in a build
\* without overflow checks
ErrUpdate(d) ==
    LET e2 == Wrap(2 * d.err)
        movex == e2 > Wrap(-d.dy)
        movey == e2 < d.dx
        err1 == IF movex THEN Wrap(d.err - d.dy) ELSE d.err
    IN  [err |-> IF movey THEN Wrap(err1 + d.dx) ELSE err1,
         x |-> IF movex THEN Wrap(d.x + d.sx) ELSE d.x,
         y |-> IF movey THEN Wrap(d.y + d.sy) ELSE d.y]

\* an operation of the Bresenham update leaves the i32 range
ErrUpdateOverflows(d) ==
    LET e2 == Wrap(2 * d.err)
        movex == e2 > Wrap(-d.dy)
        movey == e2 < d.dx
        err1 == IF movex THEN Wrap(d.err - d.dy) ELSE d.err
    IN  \/ ~InI32(2 * d.err)
        \/ ~InI32(-d.dy)
        \/ movex /\ (~InI32(d.err - d.dy) \/ ~InI32(d.x + d.sx))
        \/ movey /\ (~InI32(err1 + d.dx) \/ ~InI32(d.y + d.sy))

\* the rest of the iteration: the break at the end point, the error term, the next step
LineAdvance(d) ==
    LET u == ErrUpdate(d)
    IN  IF (d.x = d.ln.x1 /\ d.y = d.ln.y1) \/ d.step = d.steps THEN NoDraw
        ELSE [d EXCEPT !.err = u.err, !.x = u.x, !.y = u.y, !.step = d.step + 1]

RECURSIVE LineLoop(_, _, _)
\* draw_line's loop from the position d on
LineLoop(b, z, d) ==
    IF d.kind = "none" THEN [buffer |-> b, z_buffer |-> z]
    ELSE LET r == LinePixel(b, z, d)
         IN  IF r.z_buffer # z THEN LineLoop(r.buffer, r.z_buffer, LineAdvance(d))
             ELSE LineLoop(b, z, LineAdvance(d))

\* draw_line, whole
DrawLine(b, z, ln) == LineLoop(b, z, LineStart(ln))

\* one depth-tested draw: a sphere or a line
ApplyDraw(b, z, dr) ==
    IF dr.kind = "sphere" THEN RenderSphere(b, z, dr.arg) ELSE DrawLine(b, z, dr.arg)

\* render_skybox's generator: rng_state as <<high 16 bits, low 16 bits>>
\* rng_state.wrapping_mul(1103515245).wrapping_add(12345)
LcgNext(r) ==
    LET p0 == r[2] * 20077 + 12345
    IN  << (((r[1] * 20077) % 65536) + ((r[2] * 16838) % 65536) + (p0 \div 65536)) % 65536,
           p0 % 65536 >>

\* rng_state % n
LcgMod(r, n) == ((r[1] % n) * (65536 % n) + r[2]) % n

\* let mut rng_state = 12345u32
LcgSeed == << 0, 12345 >>

\* one star: three draws of the generator, then the write of its grey
StarStep(b, r) ==
    LET r1 == LcgNext(r)
        r2 == LcgNext(r1)
        r3 == LcgNext(r2)
        idx == LcgMod(r2, HEIGHT) * WIDTH + LcgMod(r1, WIDTH)
        brightness == 120 + LcgMod(r3, 136)
    IN  [buffer |-> IF idx \in Pixels THEN [b EXCEPT ![idx] = brightness * 65793] ELSE b,
         rng_state |-> r3,
         idx |-> idx]

\* a seed taken from what the buffer holds
SeedFromBuffer(b) == << 0, (12345 + b[0]) % 65536 >>

\* let mut rng_state = 12345u32, whatever the buffer holds
SkyboxSeed(b) == LcgSeed

RECURSIVE SkyboxLoop(_, _, _, _)
\* render_skybox's loop from star n on; writes collects the (idx, grey) stored
SkyboxLoop(b, r, n, writes) ==
    IF n >= NumStars THEN [buffer |-> b, writes |-> writes]
    ELSE LET st == StarStep(b, r)
         IN  IF st.idx \in Pixels
             THEN SkyboxLoop(st.buffer, st.rng_state, n + 1,
                             Append(writes, << st.idx, st.buffer[st.idx] >>))
             ELSE SkyboxLoop(b, st.rng_state, n + 1, writes)

\* render_skybox(buffer)
RenderSkybox(b) == SkyboxLoop(b, SkyboxSeed(b), 0, << >>)

\* render_orbit that stores a depth with each point
OrbitPointsWithDepth(b, z, pts, color) ==
    [buffer |-> [i \in Pixels |-> IF i \in pts THEN color ELSE b[i]],
     z_buffer |-> [i \in Pixels |-> IF i \in pts THEN 0 ELSE z[i]]]

\* render_orbit: pts are the pixels its 150 points project to
OrbitPoints(b, z, pts, color) ==
    [buffer |-> [i \in Pixels |-> IF i \in pts THEN color ELSE b[i]],
     z_buffer |-> z]

\* the (i, j, color) table of render_spaceship
Edges ==
    << <<0, 1, 16777215>>, <<0, 2, 16777215>>, <<0, 3, 16777215>>, <<0, 4, 16777215>>,
       <<1, 2, 14211288>>, <<2, 4, 14211288>>, <<4, 3, 14211288>>, <<3, 1, 14211288>>,
       <<1, 5, 14211288>>, <<2, 6, 14211288>>, <<3, 7, 14211288>>, <<4, 8, 14211288>>,
       <<5, 6, 14211288>>, <<6, 8, 14211288>>, <<8, 7, 14211288>>, <<7, 5, 14211288>>,
       <<9, 10, 14211288>>, <<10, 12, 14211288>>, <<12, 11, 14211288>>, <<11, 9, 14211288>>,
       <<5, 9, 14211288>>, <<6, 10, 14211288>>, <<7, 11, 14211288>>, <<8, 12, 14211288>>,
       <<13, 14, 4227327>>, <<14, 16, 4227327>>, <<16, 15, 4227327>>, <<15, 13, 4227327>>,
       <<5, 13, 4227327>>, <<6, 14, 4227327>>, <<9, 15, 4227327>>, <<10, 16, 4227327>>,
       <<17, 18, 10526880>>, <<18, 19, 10526880>>, <<19, 20, 10526880>>, <<20, 17, 10526880>>,
       <<5, 17, 10526880>>, <<9, 20, 10526880>>, <<18, 19, 16777215>>, <<21, 22, 10526880>>,
       <<22, 23, 10526880>>, <<23, 24, 10526880>>, <<24, 21, 10526880>>, <<6, 21, 10526880>>,
       <<10, 24, 10526880>>, <<22, 23, 16777215>>, <<25, 26, 10526880>>, <<26, 27, 10526880>>,
       <<27, 28, 10526880>>, <<28, 25, 10526880>>, <<7, 25, 10526880>>, <<11, 28, 10526880>>,
       <<26, 27, 16777215>>, <<29, 30, 10526880>>, <<30, 31, 10526880>>, <<31, 32, 10526880>>,
       <<32, 29, 10526880>>, <<8, 29, 10526880>>, <<12, 32, 10526880>>, <<30, 31, 16777215>>,
       <<33, 34, 16724016>>, <<35, 36, 16724016>>, <<37, 38, 16724016>>, <<39, 40, 16724016>>,
       <<19, 33, 16724016>>, <<19, 34, 16724016>>, <<23, 35, 16724016>>, <<23, 36, 16724016>>,
       <<27, 37, 16724016>>, <<27, 38, 16724016>>, <<31, 39, 16724016>>, <<31, 40, 16724016>> >>

RECURSIVE BodiesFrom(_, _)
\* the spheres of a frame in the order main draws them: each planet, then its moons
BodiesFrom(ps, i) ==
    IF i > Len(ps) THEN << >>
    ELSE << [planet |-> i, moon |-> 0] >>
             \o [m \in 1..Len(ps[i].moons) |-> [planet |-> i, moon |-> m]]
             \o BodiesFrom(ps, i + 1)

Bodies(ps) == BodiesFrom(ps, 1)

----------------------------------------------------------------------------
(* Projection and the callers of project_vertex *)

\* Vec3::rotate_z, rotate_x, rotate_y
RotateZ(v, a) ==
    Vec3(RoundDiv(v.x * Cos(a) - v.y * Sin(a), Scale),
         RoundDiv(v.x * Sin(a) + v.y * Cos(a), Scale),
         v.z)

RotateX(v, a) ==
    Vec3(v.x,
         RoundDiv(v.y * Cos(a) - v.z * Sin(a), Scale),
         RoundDiv(v.y * Sin(a) + v.z * Cos(a), Scale))

RotateY(v, a) ==
    Vec3(RoundDiv(v.x * Cos(a) + v.z * Sin(a), Scale),
         v.y,
         RoundDiv(-v.x * Sin(a) + v.z * Cos(a), Scale))

\* Camera::get_position: distance 10.0 behind and height 4.0 above the smoothed ship
CameraGetPosition(c) ==
    LET distance == Fx(10, 1)
        height == Fx(4, 1)
        cp == Cos(c.smoothed_pitch)
        offset == Vec3(RoundDiv(-Sin(c.smoothed_yaw) * cp * distance, Scale * Scale),
                       height - RoundDiv(Sin(c.smoothed_pitch) * distance, 2 * Scale),
                       RoundDiv(-Cos(c.smoothed_yaw) * cp * distance, Scale * Scale))
    IN  VAdd(c.smoothed_position, offset)

\* Camera::get_forward
CameraGetForward(c) == Normalize(VSub(c.smoothed_position, CameraGetPosition(c)))

\* Camera::get_right
CameraGetRight(c) == Normalize(Cross(CameraGetForward(c), Vec3(0, Fx(1, 1), 0)))

\* (FOV / 2.0).tan() with FOV = PI / 2.5
FovFactor == RoundDiv(Sin(RoundDiv(PI, 5)) * Scale, Cos(RoundDiv(PI, 5)))

\* Option<(f32, f32, f32)>
None == [some |-> FALSE]

Some(x, y, z) == [some |-> TRUE, x |-> x, y |-> y, z |-> z]

\* a near-plane test that rejects only the points at or behind the camera plane
BehindCameraPlane(z) == z <= 0

\* if z <= 0.1 { return None; }
TooNear(z) == z <= Fx(1, 10)

\* project_vertex(vertex, camera_pos, camera_forward, camera_right)
ProjectVertex(vertex, camera_pos, camera_forward, camera_right) ==
    LET relative == VSub(vertex, camera_pos)
        camera_up == Normalize(Cross(camera_right, camera_forward))
        x == FDot(relative, camera_right)
        y == FDot(relative, camera_up)
        z == FDot(relative, camera_forward)
    IN  IF TooNear(z) THEN None
        ELSE Some(RoundDiv(WIDTH * Scale, 2) + RoundDiv(x * Scale * Scale * HEIGHT, 2 * z * FovFactor),
                  RoundDiv(HEIGHT * Scale, 2) - RoundDiv(y * Scale * Scale * HEIGHT, 2 * z * FovFactor),
                  z)

\* project_vertex as the three renderers call it: with the camera's own basis
Project(v, c) == ProjectVertex(v, CameraGetPosition(c), CameraGetForward(c), CameraGetRight(c))

\* render_sphere(buffer, z_buffer, center, radius, ...): nothing when the centre does
\* not project or is more than 250 away, else the loops over the bounding box
RenderSphereAt(b, z, center, radius, color, c) ==
    LET p == Project(center, c)
        dist == Length(VSub(center, CameraGetPosition(c)))
    IN  IF ~p.some THEN [buffer |-> b, z_buffer |-> z]
        ELSE IF dist > Fx(250, 1) THEN [buffer |-> b, z_buffer |-> z]
        ELSE RenderSphere(b, z,
                [cx |-> p.x, cy |-> p.y, depth |-> p.z,
                 screen_radius |-> (radius * WIDTH * Scale) \div (2 * dist * FovFactor),
                 color |-> color,
                 light |-> FDot(Normalize(VSub(Vec3(0, 0, 0), center)), CameraGetRight(c))])

\* let segments = 150
segments == 150

\* the i-th point of the ring of render_orbit
RingPoint(radius, i) ==
    LET angle == RoundDiv(2 * PI * i, segments)
    IN  Vec3(RoundDiv(radius * Cos(angle), Scale), 0, RoundDiv(radius * Sin(angle), Scale))

\* the pixel a projected point falls on, or -1 when it is off the screen
PixelOf(p) ==
    IF OnScreen(Trunc(p.x), Trunc(p.y)) THEN Trunc(p.y) * WIDTH + Trunc(p.x) ELSE -1

\* the pixels render_orbit's loop writes: those its projected points fall on
OrbitPlotted(radius, c) ==
    {PixelOf(p) : p \in {q \in {Project(RingPoint(radius, i), c) : i \in 0..(segments - 1)} : q.some}}
        \cap Pixels

\* render_orbit(buffer, radius, camera, color)
RenderOrbit(b, radius, c, color) ==
    LET pts == OrbitPlotted(radius, c)
    IN  [i \in Pixels |-> IF i \in pts THEN color ELSE b[i]]

\* the vertices of render_spaceship's model, in the ship's frame
Vertices ==
    << Vec3(0, 0, 220), Vec3(-15, 10, 150), Vec3(15, 10, 150), Vec3(-15, -10, 150),
       Vec3(15, -10, 150), Vec3(-20, 15, 80), Vec3(20, 15, 80), Vec3(-20, -15, 80),
       Vec3(20, -15, 80), Vec3(-20, 15, -50), Vec3(20, 15, -50), Vec3(-20, -15, -50),
       Vec3(20, -15, -50), Vec3(-12, 25, 50), Vec3(12, 25, 50), Vec3(-12, 25, 0),
       Vec3(12, 25, 0), Vec3(-30, 30, 30), Vec3(-160, 80, 0), Vec3(-160, 80, -70),
       Vec3(-30, 30, -60), Vec3(30, 30, 30), Vec3(160, 80, 0), Vec3(160, 80, -70),
       Vec3(30, 30, -60), Vec3(-30, -30, 30), Vec3(-160, -80, 0), Vec3(-160, -80, -70),
       Vec3(-30, -30, -60), Vec3(30, -30, 30), Vec3(160, -80, 0), Vec3(160, -80, -70),
       Vec3(30, -30, -60), Vec3(-140, 75, -80), Vec3(-140, 75, -110), Vec3(140, 75, -80),
       Vec3(140, 75, -110), Vec3(-140, -75, -80), Vec3(-140, -75, -110), Vec3(140, -75, -80),
       Vec3(140, -75, -110) >>

\* the vertex rotated by the ship's roll, pitch and yaw and moved to its position
Transformed(s, v) ==
    VAdd(RotateY(RotateX(RotateZ(v, s.roll), s.pitch), s.yaw), s.position)

\* the vector projected: project_vertex of every transformed vertex, in order
ProjectedAll(s, c) ==
    [i \in 1..Len(Vertices) |-> Project(Transformed(s, Vertices[i]), c)] \o << >>

\* the arguments of draw_line for edge e, both of whose end points projected; the
\* edges count the vertices from 0
EdgeLine(projected, e) ==
    LET p0 == projected[e[1] + 1]
        p1 == projected[e[2] + 1]
    IN  [x0 |-> Trunc(p0.x), y0 |-> Trunc(p0.y), z0 |-> p0.z,
         x1 |-> Trunc(p1.x), y1 |-> Trunc(p1.y), z1 |-> p1.z, color |-> e[3]]

\* if let (Some(..), Some(..)) = (projected[i], projected[j])
BothProjected(projected, e) == projected[e[1] + 1].some /\ projected[e[2] + 1].some

\* one iteration of render_spaceship's loop over its edges: edge k
EdgeStep(b, z, projected, k) ==
    IF BothProjected(projected, Edges[k])
    THEN LET r == DrawLine(b, z, EdgeLine(projected, Edges[k]))
         IN  [buffer |-> r.buffer, z_buffer |-> r.z_buffer, drawn |-> << k >>]
    ELSE [buffer |-> b, z_buffer |-> z, drawn |-> << >>]

RECURSIVE EdgeLoop(_, _, _, _, _)
\* the iterations for edges lo..hi in order; drawn collects the edges draw_line was
\* called for
EdgeLoop(b, z, projected, lo, hi) ==
    IF lo = hi THEN EdgeStep(b, z, projected, lo)
    ELSE LET mid == (lo + hi) \div 2
             r1 == EdgeLoop(b, z, projected, lo, mid)
         IN  IF r1.z_buffer # z
             THEN LET r2 == EdgeLoop(r1.buffer, r1.z_buffer, projected, mid + 1, hi)
                  IN  [buffer |-> r2.buffer, z_buffer |-> r2.z_buffer, drawn |-> r1.drawn \o r2.drawn]
             ELSE LET r2 == EdgeLoop(b, z, projected, mid + 1, hi)
                  IN  [buffer |-> r2.buffer, z_buffer |-> r2.z_buffer, drawn |-> r1.drawn \o r2.drawn]

\* render_spaceship(buffer, z_buffer, spaceship, camera)
RenderSpaceship(b, z, s, c) == EdgeLoop(b, z, ProjectedAll(s, c), 1, Len(Edges))

----------------------------------------------------------------------------
(* The frame loop of main: input handling *)

\* the dt of a frame, ms: the elapsed time, at most 0.033 s
DT_CAP == 33

DtSet == {17, DT_CAP}

\* the arrow keys without the clamps of the pitch
LookStepNoClamp(s, ks, d) ==
    LET rotation_speed == RoundDiv(2 * d * AScale, 1000)
        yaw1 == IF "Left" \in ks THEN s.yaw - rotation_speed ELSE s.yaw
        roll1 == IF "Left" \in ks THEN -Ax(4, 10) ELSE 0
        yaw2 == IF "Right" \in ks THEN yaw1 + rotation_speed ELSE yaw1
        roll2 == IF "Right" \in ks THEN Ax(4, 10) ELSE roll1
        pitch1 == IF "Up" \in ks THEN s.pitch + rotation_speed ELSE s.pitch
        pitch2 == IF "Down" \in ks THEN pitch1 - rotation_speed ELSE pitch1
    IN  [s EXCEPT !.yaw = yaw2, !.pitch = pitch2, !.target_roll = roll2]

\* the arrow keys: yaw, pitch (clamped to +-PI/3) and the roll input
LookStep(s, ks, d) ==
    LET rotation_speed == RoundDiv(2 * d * AScale, 1000)
        yaw1 == IF "Left" \in ks THEN s.yaw - rotation_speed ELSE s.yaw
        roll1 == IF "Left" \in ks THEN -Ax(4, 10) ELSE 0
        yaw2 == IF "Right" \in ks THEN yaw1 + rotation_speed ELSE yaw1
        roll2 == IF "Right" \in ks THEN Ax(4, 10) ELSE roll1
        pitch1 == IF "Up" \in ks THEN Min2(s.pitch + rotation_speed, RoundDiv(PI, 3)) ELSE s.pitch
        pitch2 == IF "Down" \in ks THEN Max2(pitch1 - rotation_speed, -RoundDiv(PI, 3)) ELSE pitch1
    IN  [s EXCEPT !.yaw = yaw2, !.pitch = pitch2, !.target_roll = roll2]

\* accel_force = 0.18 * boost
AccelForce(ks) == IF "LeftShift" \in ks THEN Fx(18 * 25, 1000) ELSE Fx(18, 100)

AccelKeys == << "W", "S", "A", "D", "Q", "E" >>

\* the direction main passes to accelerate for movement key k
AccelDir(s, k) ==
    CASE k = "W" -> GetForward(s)
      [] k = "S" -> GetForward(s)
      [] k = "A" -> VMulRatio(GetRight(s), -1, 1)
      [] k = "D" -> GetRight(s)
      [] k = "Q" -> Vec3(0, -Fx(1, 1), 0)
      [] k = "E" -> Vec3(0, Fx(1, 1), 0)

\* the speed main passes to accelerate for movement key k
AccelSpeed(ks, k) ==
    CASE k = "W" -> AccelForce(ks)
      [] k = "S" -> -AccelForce(ks)
      [] OTHER -> RoundDiv(AccelForce(ks) * 7, 10)

WarpKeys == << "Key1", "Key2", "Key3", "Key4", "Key5", "Key6", "Key7" >>

\* distance from the planet, height and pitch of warp key k
WarpRadius == << 0, Fx(8, 1), Fx(12, 1), Fx(10, 1), Fx(9, 1), Fx(10, 1), Fx(12, 1) >>

WarpHeight == << Fx(8, 1), Fx(5, 1), Fx(8, 1), Fx(6, 1), Fx(55, 10), Fx(6, 1), Fx(7, 1) >>

WarpPitch == << -Ax(2, 10), -Ax(15, 100), -Ax(2, 10), -Ax(15, 100), -Ax(15, 100), -Ax(15, 100), -Ax(2, 10) >>

\* the arguments main passes to warp_to for warp key k
WarpArgs(k, ps) ==
    IF k = 1
    THEN [target |-> Vec3(Fx(15, 1), Fx(8, 1), 0), yaw |-> PI, pitch |-> WarpPitch[1]]
    ELSE LET p == ps[k]
             angle == p.orbit_angle
         IN  [target |-> Vec3(p.position.x + RoundDiv(WarpRadius[k] * Cos(angle), Scale),
                              WarpHeight[k],
                              p.position.z + RoundDiv(WarpRadius[k] * Sin(angle), Scale)),
              yaw |-> angle + PI,
              pitch |-> WarpPitch[k]]

RECURSIVE AccelAll(_, _, _)
\* the six movement keys in the order main tests them, from key i on
AccelAll(s, ks, i) ==
    IF i > Len(AccelKeys) THEN s
    ELSE AccelAll(IF AccelKeys[i] \in ks
                  THEN Accelerate(s, AccelDir(s, AccelKeys[i]), AccelSpeed(ks, AccelKeys[i]))
                  ELSE s,
                  ks, i + 1)

RECURSIVE WarpAll(_, _, _, _)
\* the seven warp keys in the order main tests them, from key k on
WarpAll(s, ks, ps, k) ==
    IF k > Len(WarpKeys) THEN s
    ELSE WarpAll(IF WarpKeys[k] \in ks /\ Len(ps) > k - 1
                 THEN LET a == WarpArgs(k, ps) IN WarpTo(s, a.target, a.yaw, a.pitch)
                 ELSE s,
                 ks, ps, k + 1)

\* the dynamics of one frame: main, from the planets' update to camera.update
FrameDynamics(w, ks, d) ==
    LET ps == PlanetsUpdate(w.planets, d)
        s1 == LookStep(w.spaceship, ks, d)
        s2 == AccelAll(s1, ks, 1)
        s3 == WarpAll(s2, ks, ps, 1)
        s4 == ShipUpdate(s3, d, ps)
    IN  [spaceship |-> s4,
         camera |-> CameraUpdate(w.camera, s4, d),
         planets |-> ps,
         time |-> w.time + d,
         show_orbits |-> IF "O" \in ks THEN ~w.show_orbits ELSE w.show_orbits]

\* main's state before the first frame
WorldNew ==
    [spaceship |-> SpaceshipNew, camera |-> CameraNew, planets |-> PlanetsNew,
     time |-> 0, show_orbits |-> TRUE]

----------------------------------------------------------------------------
(* The frame loop of main as steps: Spec *)

\* the key states the window reports in a frame
KeySets ==
    { {},
      {"W", "LeftShift", "Left", "Up"},
      {"S", "A", "Q"},
      {"D", "E", "Key1", "Key2", "Key3", "O"},
      {"Right", "Down", "Key4", "Key5", "Key6", "Key7"},
      {"Escape"} }

\* the keys held on the way to a start state
WarmKeySets ==
    { {"W", "LeftShift"},
      {"W", "D", "E", "LeftShift", "Right", "Down"},
      {"S", "A", "Q", "Left", "Up", "LeftShift"} }

Zero3 == Vec3(0, 0, 0)

\* the record of a call: the method, the ship before it, and its arguments
MkCall(op, pre, dir, speed, target, yaw, pitch, d) ==
    [op |-> op, pre |-> pre, dir |-> dir, speed |-> speed,
     target |-> target, yaw |-> yaw, pitch |-> pitch, d |-> d]

CallNone == MkCall("none", SpaceshipNew, Zero3, 0, Zero3, 0, 0, 0)

\* main's state before the first frame; the keys of the first frames are chosen
Init ==
    /\ spaceship = SpaceshipNew
    /\ camera = CameraNew
    /\ planets = PlanetsNew
    /\ time = 0
    /\ show_orbits = TRUE
    /\ dt = DT_CAP
    /\ keys \in WarmKeySets
    /\ pc = "warm"
    /\ step = 0
    /\ frame = 0
    /\ call = CallNone
    /\ RasterNew
    /\ LoaderNew

\* one of the first frames, whole: the keys held, dt at its cap
WarmFrame ==
    /\ pc = "warm"
    /\ step < WarmFrames
    /\ LET w == FrameDynamics([spaceship |-> spaceship, camera |-> camera, planets |-> planets,
                               time |-> time, show_orbits |-> show_orbits], keys, dt)
       IN  /\ spaceship' = w.spaceship
           /\ camera' = w.camera
           /\ planets' = w.planets
           /\ time' = w.time
           /\ show_orbits' = w.show_orbits
    /\ step' = step + 1
    /\ call' = CallNone
    /\ UNCHANGED <<dt, keys, pc, frame>>
    /\ UNCHANGED raster
    /\ UNCHANGED loader

\* from here on the frames are taken step by step
EndWarm ==
    /\ pc = "warm"
    /\ step % WarmStride = 0 \/ step = WarmFrames
    /\ pc' = "begin"
    /\ step' = 1
    /\ call' = CallNone
    /\ UNCHANGED <<spaceship, camera, planets, time, dt, keys, show_orbits, frame>>
    /\ UNCHANGED raster
    /\ UNCHANGED loader

\* while window.is_open() && !Escape: dt, time (main.rs 930-935)
Begin ==
    /\ pc = "begin"
    /\ frame < MaxFrames
    /\ \E d \in DtSet, ks \in KeySets :
          /\ keys' = ks
          /\ IF "Escape" \in ks
             THEN pc' = "exit" /\ UNCHANGED <<dt, time>>
             ELSE pc' = "planets" /\ dt' = d /\ time' = time + d
    /\ call' = CallNone
    /\ UNCHANGED <<spaceship, camera, planets, show_orbits, step, frame>>
    /\ UNCHANGED raster
    /\ UNCHANGED loader

\* for planet in &mut planets { planet.update(dt) }
UpdatePlanets ==
    /\ pc = "planets"
    /\ planets' = PlanetsUpdate(planets, dt)
    /\ pc' = "look"
    /\ call' = CallNone
    /\ UNCHANGED <<spaceship, camera, time, dt, keys, show_orbits, step, frame>>
    /\ UNCHANGED raster
    /\ UNCHANGED loader

\* the arrow keys and target_roll (main.rs 941-961)
Look ==
    /\ pc = "look"
    /\ spaceship' = LookStep(spaceship, keys, dt)
    /\ pc' = "accel"
    /\ step' = 1
    /\ call' = CallNone
    /\ UNCHANGED <<camera, planets, time, dt, keys, show_orbits, frame>>
    /\ UNCHANGED raster
    /\ UNCHANGED loader

\* one of the six movement keys (main.rs 963-983)
AccelKey ==
    /\ pc = "accel"
    /\ LET k == AccelKeys[step]
           dir == AccelDir(spaceship, k)
           speed == AccelSpeed(keys, k)
       IN  IF k \in keys
           THEN /\ spaceship' = Accelerate(spaceship, dir, speed)
                /\ call' = MkCall("accelerate", spaceship, dir, speed, Zero3, 0, 0, 0)
           ELSE spaceship' = spaceship /\ call' = CallNone
    /\ IF step < Len(AccelKeys)
       THEN step' = step + 1 /\ pc' = pc
       ELSE step' = 1 /\ pc' = "warp"
    /\ UNCHANGED <<camera, planets, time, dt, keys, show_orbits, frame>>
    /\ UNCHANGED raster
    /\ UNCHANGED loader

\* one of the seven warp keys (main.rs 985-1035)
WarpKey ==
    /\ pc = "warp"
    /\ LET a == WarpArgs(step, planets)
       IN  IF WarpKeys[step] \in keys /\ Len(planets) > step - 1
           THEN /\ spaceship' = WarpTo(spaceship, a.target, a.yaw, a.pitch)
                /\ call' = MkCall("warp_to", spaceship, Zero3, 0, a.target, a.yaw, a.pitch, 0)
           ELSE spaceship' = spaceship /\ call' = CallNone
    /\ IF step < Len(WarpKeys)
       THEN step' = step + 1 /\ pc' = pc
       ELSE step' = 1 /\ pc' = "toggle"
    /\ UNCHANGED <<camera, planets, time, dt, keys, show_orbits, frame>>
    /\ UNCHANGED raster
    /\ UNCHANGED loader

\* the O key (main.rs 1037-1039)
Toggle ==
    /\ pc = "toggle"
    /\ show_orbits' = IF "O" \in keys THEN ~show_orbits ELSE show_orbits
    /\ pc' = "ship_update"
    /\ call' = CallNone
    /\ UNCHANGED <<spaceship, camera, planets, time, dt, keys, step, frame>>
    /\ UNCHANGED raster
    /\ UNCHANGED loader

\* spaceship.update(dt, &planets)
UpdateShip ==
    /\ pc = "ship_update"
    /\ spaceship' = ShipUpdate(spaceship, dt, planets)
    /\ call' = MkCall("update", spaceship, Zero3, 0, Zero3, 0, 0, dt)
    /\ pc' = "camera_update"
    /\ UNCHANGED <<camera, planets, time, dt, keys, show_orbits, step, frame>>
    /\ UNCHANGED raster
    /\ UNCHANGED loader

\* camera.update(&spaceship, dt)
UpdateCamera ==
    /\ pc = "camera_update"
    /\ camera' = CameraUpdate(camera, spaceship, dt)
    /\ pc' = "render"
    /\ call' = CallNone
    /\ UNCHANGED <<spaceship, planets, time, dt, keys, show_orbits, step, frame>>
    /\ UNCHANGED raster
    /\ UNCHANGED loader

\* the clear, the draws and the presentation (main.rs 1044-1087): they read the
\* ship, the camera and the planets and change none of them; SpecFrame follows
\* what they do to the buffers
Render ==
    /\ pc = "render"
    /\ pc' = "begin"
    /\ frame' = frame + 1
    /\ call' = CallNone
    /\ UNCHANGED <<spaceship, camera, planets, time, dt, keys, show_orbits, step>>
    /\ UNCHANGED raster
    /\ UNCHANGED loader

Next ==
    \/ WarmFrame \/ EndWarm
    \/ Begin \/ UpdatePlanets \/ Look \/ AccelKey \/ WarpKey
    \/ Toggle \/ UpdateShip \/ UpdateCamera \/ Render

Spec == Init /\ [][Next]_vars

SpeedSq(s) == Dot(s.velocity, s.velocity)

----------------------------------------------------------------------------
(* The speed limit *)

\* C6 as stated: in every state of the frame loop the speed is at most max_speed
C6_SpeedAtMostMax == SpeedSq(spaceship) <= max_speed * max_speed

\* C6, amended: the speed exceeds max_speed by less than two grid steps (the rounding
\* of the length and of the rescaled components), and update and warp_to never
\* increase the speed
C6_SpeedWithinRounding ==
    /\ SpeedSq(spaceship) < (max_speed + 2) * (max_speed + 2)
    /\ call.op \in {"update", "warp_to"} => SpeedSq(spaceship) <= SpeedSq(call.pre)

\* accelerate has just clamped a velocity that was over the limit
C6_Clamped ==
    /\ call.op = "accelerate"
    /\ Length(VAdd(call.pre.velocity, VMul(call.dir, call.speed))) > max_speed
    /\ spaceship.velocity # VAdd(call.pre.velocity, VMul(call.dir, call.speed))

----------------------------------------------------------------------------
(* warp_to *)

\* C8: after warp_to, for each warp key: velocity, roll and target_roll are zero,
\* and position, yaw and pitch are the arguments
C8_WarpResets ==
    call.op = "warp_to" =>
        /\ spaceship.velocity = Vec3(0, 0, 0)
        /\ spaceship.roll = 0
        /\ spaceship.target_roll = 0
        /\ spaceship.position = call.target
        /\ spaceship.yaw = call.yaw
        /\ spaceship.pitch = call.pitch

\* a warp key has fired on a ship that was moving and banking
C8_WarpedMoving ==
    /\ call.op = "warp_to"
    /\ call.pre.velocity # Vec3(0, 0, 0)
    /\ call.pre.roll # 0
    /\ call.pre.target_roll # 0
    /\ call.pre.position # call.target

----------------------------------------------------------------------------
(* The methods of Spaceship on their own: SpecMethods *)

\* the sun's clearance is scale + 2.0 = 7.0; Earth is at (20, 0, 0.2) after one frame
PosSamples ==
    { SpaceshipNew.position,
      Vec3(0, 0, Fx(7, 1) + 5),
      Vec3(0, 0, Fx(7, 1)),
      Vec3(0, 0, Fx(69, 10)),
      Vec3(3, -Fx(7, 1) - 2, 1),
      Vec3(Fx(24, 1) + 4, 0, 0),
      Vec3(Fx(15, 1), Fx(8, 1), 0) }

VelSamples ==
    { Vec3(0, 0, 0),
      Vec3(0, 0, max_speed),
      Vec3(0, 0, -max_speed),
      Vec3(0, Fx(1, 1), -Fx(1, 1)),
      Vec3(-Fx(2, 1), 0, 0),
      Vec3(Fx(15, 10), -Fx(15, 10), Fx(1, 1)),
      Vec3(3, -2, 1),
      Vec3(-109, 109, 197) }

DirSamples ==
    { Vec3(0, 0, Fx(1, 1)),
      Vec3(0, -Fx(1, 1), 0),
      Vec3(-Fx(1, 1), 0, 0),
      Vec3(Fx(6, 10), 0, Fx(8, 10)),
      Vec3(-Fx(58, 100), Fx(58, 100), Fx(58, 100)),
      Vec3(Fx(2, 1), Fx(1, 1), 0),
      Vec3(0, 0, 0) }

SpeedSamples == { 0, Fx(18, 100), -Fx(18, 100), Fx(45, 100), Fx(126, 1000), Fx(315, 1000), Fx(3, 1) }

InitMethods ==
    /\ spaceship \in { [SpaceshipNew EXCEPT !.position = p, !.velocity = v, !.yaw = y,
                                             !.roll = r, !.target_roll = -r] :
                          p \in PosSamples, v \in VelSamples,
                          y \in {0, Ax(1, 1)}, r \in {0, Ax(4, 10)} }
    /\ camera = CameraNew
    /\ planets = PlanetsUpdate(PlanetsNew, DT_CAP)
    /\ time = 0
    /\ show_orbits = TRUE
    /\ dt = DT_CAP
    /\ keys = {}
    /\ pc = "call"
    /\ step = 0
    /\ frame = 0
    /\ call = CallNone
    /\ RasterNew
    /\ LoaderNew

\* spaceship.accelerate(direction, speed)
CallAccelerate ==
    /\ pc = "call"
    /\ step < MaxCalls
    /\ \E dir \in DirSamples, speed \in SpeedSamples :
          /\ spaceship' = Accelerate(spaceship, dir, speed)
          /\ call' = MkCall("accelerate", spaceship, dir, speed, Zero3, 0, 0, 0)
    /\ step' = step + 1
    /\ UNCHANGED <<camera, planets, time, dt, keys, show_orbits, pc, frame>>
    /\ UNCHANGED raster
    /\ UNCHANGED loader

\* spaceship.update(dt, &planets)
CallUpdate ==
    /\ pc = "call"
    /\ step < MaxCalls
    /\ \E d \in DtSet :
          /\ spaceship' = ShipUpdate(spaceship, d, planets)
          /\ call' = MkCall("update", spaceship, Zero3, 0, Zero3, 0, 0, d)
    /\ step' = step + 1
    /\ UNCHANGED <<camera, planets, time, dt, keys, show_orbits, pc, frame>>
    /\ UNCHANGED raster
    /\ UNCHANGED loader

NextMethods == CallAccelerate \/ CallUpdate

SpecMethods == InitMethods /\ [][NextMethods]_vars

\* the fields of the ship other than the velocity are those before the call
SameAttitude(s, t) ==
    /\ s.position = t.position
    /\ s.yaw = t.yaw
    /\ s.pitch = t.pitch
    /\ s.roll = t.roll
    /\ s.target_roll = t.target_roll

\* a is the grid point nearest to b * n / d
Nearest(a, b, n, d) == 2 * Abs(a * d - b * n) <= d

Nearest3(a, b, n, d) ==
    /\ Nearest(a.x, b.x, n, d)
    /\ Nearest(a.y, b.y, n, d)
    /\ Nearest(a.z, b.z, n, d)

\* a keeps the direction of b, as far as grid points can: no component changes
\* sign or grows, and the cross product is within the rounding of the components
SameDirection(a, b) ==
    /\ a.x * b.x >= 0 /\ a.y * b.y >= 0 /\ a.z * b.z >= 0
    /\ Abs(a.x) <= Abs(b.x) /\ Abs(a.y) <= Abs(b.y) /\ Abs(a.z) <= Abs(b.z)
    /\ 2 * Abs(a.x * b.y - a.y * b.x) <= Abs(b.x) + Abs(b.y)
    /\ 2 * Abs(a.y * b.z - a.z * b.y) <= Abs(b.y) + Abs(b.z)
    /\ 2 * Abs(a.z * b.x - a.x * b.z) <= Abs(b.z) + Abs(b.x)

\* C7: accelerate(d, s) leaves velocity w = v + d*s when |w| <= 2.5, and otherwise w
\* scaled by 2.5/|w| (each component the grid point nearest to it), in the direction
\* of w; position, yaw, pitch, roll and target_roll are unchanged
C7_AccelerateResult ==
    call.op = "accelerate" =>
        LET w == VAdd(call.pre.velocity, VMul(call.dir, call.speed))
            len == Length(w)
        IN  /\ len <= max_speed => spaceship.velocity = w
            /\ len > max_speed =>
                  /\ Nearest3(spaceship.velocity, w, max_speed, len)
                  /\ SameDirection(spaceship.velocity, w)
            /\ SameAttitude(spaceship, call.pre)

\* accelerate has rescaled a velocity with three non-zero components
C7_Rescaled ==
    /\ call.op = "accelerate"
    /\ Length(VAdd(call.pre.velocity, VMul(call.dir, call.speed))) > max_speed
    /\ spaceship.velocity.x # 0 /\ spaceship.velocity.y # 0 /\ spaceship.velocity.z # 0
    /\ spaceship.velocity # VAdd(call.pre.velocity, VMul(call.dir, call.speed))

\* some planet's centre is nearer to p than its scale + 2.0
InClearance(p) ==
    \E i \in 1..Len(planets) :
        Length(VSub(p, planets[i].position)) < planets[i].scale + Fx(2, 1)

\* C9: update(dt, planets) with p' = position + velocity*dt: if p' is within some
\* planet's scale + 2.0, position is unchanged and velocity is 0.5 * 0.95 times the old
\* one; otherwise position is p' and velocity 0.95 times the old one (to the grid);
\* update never moves the ship to a position within a planet's clearance
C9_UpdateResult ==
    call.op = "update" =>
        LET new_position == VAdd(call.pre.position, VMulRatio(call.pre.velocity, call.d, 1000))
        IN  /\ InClearance(new_position) =>
                  /\ spaceship.position = call.pre.position
                  /\ Nearest3(spaceship.velocity, VMulRatio(call.pre.velocity, 1, 2), 95, 100)
            /\ ~InClearance(new_position) =>
                  /\ spaceship.position = new_position
                  /\ Nearest3(spaceship.velocity, call.pre.velocity, 95, 100)
            /\ spaceship.position # call.pre.position => ~InClearance(spaceship.position)

\* update has rejected a move into a clearance zone from outside it
C9_Rejected ==
    /\ call.op = "update"
    /\ ~InClearance(call.pre.position)
    /\ InClearance(VAdd(call.pre.position, VMulRatio(call.pre.velocity, call.d, 1000)))
    /\ spaceship.position = call.pre.position
    /\ spaceship.velocity # Vec3(0, 0, 0)

----------------------------------------------------------------------------
(* angle_difference and its use by the camera: SpecAngle *)

\* yaw is never wrapped by the program, so it takes values of any size
AngleSamples ==
    { 0, PI, -PI, PI + 1, -PI - 1, PI - 1, 1 - PI, TwoPI, -TwoPI, 3 * PI, -3 * PI,
      Ax(1, 1), -Ax(25, 10), 2 * TwoPI + 5, -Ax(7, 1) }

InitAngle ==
    /\ \E y \in AngleSamples : spaceship = [SpaceshipNew EXCEPT !.yaw = y]
    /\ \E y \in AngleSamples : camera = [CameraNew EXCEPT !.smoothed_yaw = y]
    /\ planets = PlanetsNew
    /\ time = 0
    /\ show_orbits = TRUE
    /\ dt = DT_CAP
    /\ keys = {}
    /\ pc = "call"
    /\ step = 0
    /\ frame = 0
    /\ call = CallNone
    /\ RasterNew
    /\ LoaderNew

\* angle_difference(spaceship.yaw, self.smoothed_yaw), on its own
CallAngleDifference ==
    /\ pc = "call"
    /\ step < MaxCalls
    /\ call' = [op |-> "angle_difference", target |-> spaceship.yaw,
                current |-> camera.smoothed_yaw,
                ret |-> angle_difference(spaceship.yaw, camera.smoothed_yaw)]
    /\ step' = step + 1
    /\ UNCHANGED <<spaceship, camera, planets, time, dt, keys, show_orbits, pc, frame>>
    /\ UNCHANGED raster
    /\ UNCHANGED loader

\* camera.update(&spaceship, dt)
CallCameraUpdate ==
    /\ pc = "call"
    /\ step < MaxCalls
    /\ \E d \in DtSet :
          /\ camera' = CameraUpdate(camera, spaceship, d)
          /\ call' = [op |-> "camera.update", target |-> spaceship.yaw,
                      current |-> camera.smoothed_yaw, d |-> d]
    /\ step' = step + 1
    /\ UNCHANGED <<spaceship, planets, time, dt, keys, show_orbits, pc, frame>>
    /\ UNCHANGED raster
    /\ UNCHANGED loader

NextAngle == CallAngleDifference \/ CallCameraUpdate

SpecAngle == InitAngle /\ [][NextAngle]_vars

\* a and b differ by an integer multiple of 2*pi
Congruent(a, b) == (a - b) % TwoPI = 0

----------------------------------------------------------------------------
(* render_sphere and draw_line pixel by pixel: SpecDraw *)

\* what project_vertex and the radius computation hand to render_sphere's loops:
\* centres on and off the screen, on and between pixel centres
SphereSamples ==
    { [cx |-> Fx(1, 1), cy |-> Fx(1, 1), screen_radius |-> 1, depth |-> Fx(5, 1), color |-> 10, light |-> 1],
      [cx |-> Fx(1, 1), cy |-> Fx(1, 1), screen_radius |-> 1, depth |-> Fx(5, 1), color |-> 20, light |-> -1],
      [cx |-> Fx(3, 2), cy |-> Fx(3, 2), screen_radius |-> 2, depth |-> Fx(51, 10), color |-> 30, light |-> 1],
      [cx |-> -Fx(1, 2), cy |-> Fx(5, 2), screen_radius |-> 1, depth |-> Fx(4, 1), color |-> 12, light |-> 1],
      [cx |-> Fx(9, 2), cy |-> 0, screen_radius |-> 1, depth |-> Fx(6, 1), color |-> 14, light |-> -1],
      [cx |-> Fx(2, 1), cy |-> Fx(1, 1), screen_radius |-> 0, depth |-> Fx(5, 1), color |-> 16, light |-> 1] }

\* what render_spaceship hands to draw_line: end points on and off the screen
LineSamples ==
    { [x0 |-> 0, y0 |-> 1, z0 |-> Fx(5, 1), x1 |-> 3, y1 |-> 1, z1 |-> Fx(5, 1), color |-> 40],
      [x0 |-> 0, y0 |-> 1, z0 |-> Fx(5, 1), x1 |-> 3, y1 |-> 1, z1 |-> Fx(5, 1), color |-> 41],
      [x0 |-> -1, y0 |-> 0, z0 |-> Fx(49, 10), x1 |-> 4, y1 |-> 2, z1 |-> Fx(51, 10), color |-> 50],
      [x0 |-> 3, y0 |-> 2, z0 |-> Fx(52, 10), x1 |-> 0, y1 |-> 0, z1 |-> Fx(48, 10), color |-> 60],
      [x0 |-> 1, y0 |-> 1, z0 |-> Fx(5, 1), x1 |-> 1, y1 |-> 1, z1 |-> Fx(5, 1), color |-> 70],
      [x0 |-> 2, y0 |-> -1, z0 |-> Fx(47, 10), x1 |-> 2, y1 |-> 3, z1 |-> Fx(53, 10), color |-> 80] }

InitDraw ==
    /\ spaceship = SpaceshipNew
    /\ camera = CameraNew
    /\ planets = PlanetsNew
    /\ time = 0
    /\ show_orbits = TRUE
    /\ dt = DT_CAP
    /\ keys = {}
    /\ pc = "draw"
    /\ step = 0
    /\ frame = 0
    /\ call = CallNone
    /\ RasterNew
    /\ LoaderNew

\* render_sphere up to its loops
BeginSphere ==
    /\ pc = "draw"
    /\ draw.kind = "none"
    /\ step < MaxDraws
    /\ \E sp \in SphereSamples : draw' = SphereStart(sp)
    /\ step' = step + 1
    /\ last' = NoWrite
    /\ UNCHANGED <<world, buffer, z_buffer, stamp, log, visible>>
    /\ UNCHANGED loader

\* one pixel of render_sphere's loops
SphereStep ==
    /\ pc = "draw"
    /\ draw.kind = "sphere"
    /\ LET r == SpherePixel(buffer, z_buffer, draw.sp, draw.x, draw.y)
       IN  /\ buffer' = r.buffer
           /\ z_buffer' = r.z_buffer
           /\ last' = WriteOf("sphere", z_buffer, r.z_buffer)
    /\ draw' = SphereAdvance(draw)
    /\ UNCHANGED <<world, step, stamp, log, visible>>
    /\ UNCHANGED loader

\* draw_line up to its loop
BeginLine ==
    /\ pc = "draw"
    /\ draw.kind = "none"
    /\ step < MaxDraws
    /\ \E ln \in LineSamples : draw' = LineStart(ln)
    /\ step' = step + 1
    /\ last' = NoWrite
    /\ UNCHANGED <<world, buffer, z_buffer, stamp, log, visible>>
    /\ UNCHANGED loader

\* one iteration of draw_line's loop
LineStep ==
    /\ pc = "draw"
    /\ draw.kind = "line"
    /\ LET r == LinePixel(buffer, z_buffer, draw)
       IN  /\ buffer' = r.buffer
           /\ z_buffer' = r.z_buffer
           /\ last' = WriteOf("line", z_buffer, r.z_buffer)
    /\ draw' = LineAdvance(draw)
    /\ UNCHANGED <<world, step, stamp, log, visible>>
    /\ UNCHANGED loader

NextDraw == BeginSphere \/ SphereStep \/ BeginLine \/ LineStep

SpecDraw == InitDraw /\ [][NextDraw]_vars

\* the step changes entry i of a buffer
Touched(i) == buffer'[i] # buffer[i] \/ z_buffer'[i] # z_buffer[i]

\* C1: every entry render_sphere writes is inside the clamped bounding box (so inside
\* the screen), and it writes the colour and the depth of an entry only when the new
\* pixel depth is strictly greater than the depth held there just before; at an equal
\* or smaller depth both entries stay as they were
C1_SphereWrites ==
    [][draw.kind = "sphere" =>
          LET sp == draw.sp
              idx == draw.y * WIDTH + draw.x
              pixel_depth == PixelDepth(sp, draw.x, draw.y)
          IN  /\ \A i \in Pixels :
                    Touched(i) =>
                        /\ i = idx
                        /\ XMin(sp) <= draw.x /\ draw.x <= XMax(sp)
                        /\ YMin(sp) <= draw.y /\ draw.y <= YMax(sp)
                        /\ draw.x \in 0..(WIDTH - 1) /\ draw.y \in 0..(HEIGHT - 1)
                        /\ pixel_depth > z_buffer[i]
                        /\ z_buffer'[i] = pixel_depth
              /\ pixel_depth <= z_buffer[idx] => ~Touched(idx)
      ]_vars

\* render_sphere has replaced a depth an earlier draw left
C1_Overwritten ==
    /\ last.kind = "sphere"
    /\ last.old_z > NEG_INFINITY
    /\ last.new_z > last.old_z
    /\ step = MaxDraws

\* C2: draw_line writes a pixel's colour and depth only if the pixel is inside the
\* screen and the interpolated depth z0 + (z1 - z0) * step / steps is strictly greater
\* than the depth stored there; it writes the two together and leaves every other
\* entry as it was
C2_LineWrites ==
    [][draw.kind = "line" =>
          LET idx == draw.y * WIDTH + draw.x
              zl == draw.ln.z0 + RoundDiv((draw.ln.z1 - draw.ln.z0) * draw.step, draw.steps)
          IN  \A i \in Pixels :
                  Touched(i) =>
                      /\ i = idx
                      /\ 0 <= draw.x /\ draw.x < WIDTH /\ 0 <= draw.y /\ draw.y < HEIGHT
                      /\ zl > z_buffer[i]
                      /\ z_buffer'[i] = zl
                      /\ buffer'[i] = draw.ln.color
      ]_vars

\* draw_line has replaced a depth an earlier draw left
C2_Overdrawn ==
    /\ last.kind = "line"
    /\ last.old_z > NEG_INFINITY
    /\ last.new_z > last.old_z
    /\ step = MaxDraws

----------------------------------------------------------------------------
(* Two depth-tested draws in both orders: SpecOrder *)

DrawSamples ==
    {[kind |-> "sphere", arg |-> sp] : sp \in SphereSamples}
        \cup {[kind |-> "line", arg |-> ln] : ln \in LineSamples}

InitOrder ==
    /\ spaceship = SpaceshipNew
    /\ camera = CameraNew
    /\ planets = PlanetsNew
    /\ time = 0
    /\ show_orbits = TRUE
    /\ dt = DT_CAP
    /\ keys = {}
    /\ pc = "order"
    /\ step = 0
    /\ frame = 0
    /\ call = CallNone
    /\ RasterNew
    /\ LoaderNew

\* a draw made earlier in the frame: what the pair finds in the buffers
PriorDraw ==
    /\ pc = "order"
    /\ step < MaxPrior
    /\ \E dr \in DrawSamples :
          LET r == ApplyDraw(buffer, z_buffer, dr)
          IN  /\ buffer' = r.buffer
              /\ z_buffer' = r.z_buffer
    /\ step' = step + 1
    /\ UNCHANGED <<world, draw, last, stamp, log, visible>>
    /\ UNCHANGED loader

\* two draws, first then second; draw.swapped is what second then first would leave
DrawPair ==
    /\ pc = "order"
    /\ \E first \in DrawSamples, second \in DrawSamples :
          LET r1 == ApplyDraw(buffer, z_buffer, first)
              r12 == ApplyDraw(r1.buffer, r1.z_buffer, second)
              r2 == ApplyDraw(buffer, z_buffer, second)
              r21 == ApplyDraw(r2.buffer, r2.z_buffer, first)
          IN  /\ buffer' = r12.buffer
              /\ z_buffer' = r12.z_buffer
              /\ draw' = [kind |-> "pair", first |-> first, second |-> second, swapped |-> r21]
    /\ pc' = "ordered"
    /\ UNCHANGED <<spaceship, camera, planets, time, dt, keys, show_orbits, step, frame, call,
                   last, stamp, log, visible>>
    /\ UNCHANGED loader

NextOrder == PriorDraw \/ DrawPair

SpecOrder == InitOrder /\ [][NextOrder]_vars

\* C3 as stated: the colour buffer and the depth buffer are the same whichever of two
\* depth-tested draws is applied first, also when they meet at one depth in a pixel
C3_OrderIndependent ==
    pc = "ordered" => buffer = draw.swapped.buffer /\ z_buffer = draw.swapped.z_buffer

\* what a draw produces on its own: its depth and colour at each pixel it covers
Alone(dr) == ApplyDraw(ClearedBuffer, ClearedZ, dr)

\* C3, amended: the depth buffer is the same whichever of two depth-tested draws is
\* applied first, and so is the colour buffer except in a pixel where the two draws
\* produce the same depth, which becomes the stored one: there the draw applied first
\* keeps the pixel
C3_OrderUpToTies ==
    pc = "ordered" =>
        /\ z_buffer = draw.swapped.z_buffer
        /\ \A i \in Pixels :
              buffer[i] # draw.swapped.buffer[i] =>
                  /\ Alone(draw.first).z_buffer[i] = z_buffer[i]
                  /\ Alone(draw.second).z_buffer[i] = z_buffer[i]
                  /\ buffer[i] = Alone(draw.first).buffer[i]
                  /\ draw.swapped.buffer[i] = Alone(draw.second).buffer[i]

\* two draws of different kinds met at one depth in a pixel, over an earlier draw
C3_Tie ==
    /\ pc = "ordered"
    /\ step = MaxPrior
    /\ draw.first.kind # draw.second.kind
    /\ \E i \in Pixels : buffer[i] # draw.swapped.buffer[i]

----------------------------------------------------------------------------
(* The frame loop of main with its drawing: SpecFrame *)

FrameKeySets == { {}, {"O"}, {"Escape"} }

\* the pixels an orbit ring's points project to: none, or a row of the screen
OrbitSamples == { {}, {i \in Pixels : i \div WIDTH = 1} }

\* the centres project_vertex accepts among the bodies of a frame
FrameSpheres ==
    { [cx |-> Fx(1, 1), cy |-> Fx(1, 1), screen_radius |-> 1, depth |-> Fx(5, 1), color |-> 10, light |-> 1],
      [cx |-> -Fx(1, 2), cy |-> Fx(5, 2), screen_radius |-> 1, depth |-> Fx(4, 1), color |-> 12, light |-> 1] }

\* the projected end points of the vehicle's edges
FrameLines ==
    { [x0 |-> 3, y0 |-> 2, z0 |-> Fx(52, 10), x1 |-> -1, y1 |-> 0, z1 |-> Fx(48, 10)] }

InitFrame ==
    /\ spaceship = SpaceshipNew
    /\ camera = CameraNew
    /\ planets = PlanetsNew
    /\ time = 0
    /\ show_orbits = TRUE
    /\ dt = DT_CAP
    /\ keys = {}
    /\ pc = "frame"
    /\ step = 0
    /\ frame = 0
    /\ call = CallNone
    /\ RasterNew
    /\ LoaderNew

\* the log with one more phase done
Done(phase) == [log EXCEPT !.phases = Append(log.phases, phase)]

\* the stamps after a depth-tested draw that left the depths znew
StampDrawn(znew, by) ==
    [i \in Pixels |-> IF znew[i] # z_buffer[i] THEN Stamp(frame, frame, by, stamp[i].by) ELSE stamp[i]]

\* the loop test, and the frame's dynamics up to camera.update
Dynamics ==
    /\ pc = "frame"
    /\ frame < MaxFrames
    /\ \E ks \in FrameKeySets :
          /\ keys' = ks
          /\ IF "Escape" \in ks
             THEN /\ pc' = "exit"
                  /\ UNCHANGED <<spaceship, camera, planets, time, show_orbits, log>>
             ELSE LET w == FrameDynamics([spaceship |-> spaceship, camera |-> camera,
                                          planets |-> planets, time |-> time,
                                          show_orbits |-> show_orbits], ks, DT_CAP)
                  IN  /\ spaceship' = w.spaceship
                      /\ camera' = w.camera
                      /\ planets' = w.planets
                      /\ time' = w.time
                      /\ show_orbits' = w.show_orbits
                      /\ pc' = "clear"
                      /\ log' = [phases |-> << "dynamics" >>, bodies |-> << >>]
    /\ visible' = 0
    /\ UNCHANGED <<dt, step, frame, call, buffer, z_buffer, draw, last, stamp>>
    /\ UNCHANGED loader

\* buffer.fill(0x000000); z_buffer.fill(f32::NEG_INFINITY)
Clear ==
    /\ pc = "clear"
    /\ buffer' = ClearedBuffer
    /\ z_buffer' = ClearedZ
    /\ stamp' = [i \in Pixels |-> Stamp(frame, frame, "clear", stamp[i].by)]
    /\ log' = Done("clear")
    /\ pc' = "skybox"
    /\ step' = 0
    /\ draw' = [kind |-> "skybox", rng_state |-> LcgSeed]
    /\ last' = NoWrite
    /\ UNCHANGED <<spaceship, camera, planets, time, dt, keys, show_orbits, frame, call, visible>>
    /\ UNCHANGED loader

\* render_skybox: one star
Star ==
    /\ pc = "skybox"
    /\ step < NumStars
    /\ LET r == StarStep(buffer, draw.rng_state)
       IN  /\ buffer' = r.buffer
           /\ draw' = [draw EXCEPT !.rng_state = r.rng_state]
           /\ stamp' = [stamp EXCEPT ![r.idx] = Stamp(frame, stamp[r.idx].zframe, "star", stamp[r.idx].by)]
           /\ last' = [kind |-> "star", idx |-> r.idx]
    /\ step' = step + 1
    /\ UNCHANGED <<world, z_buffer, log, visible>>
    /\ UNCHANGED loader

\* render_skybox returns; if show_orbits { ... }
SkyboxDone ==
    /\ pc = "skybox"
    /\ step = NumStars
    /\ pc' = IF show_orbits THEN "orbits" ELSE "bodies"
    /\ step' = 1
    /\ draw' = NoDraw
    /\ last' = NoWrite
    /\ log' = Done("starfield")
    /\ UNCHANGED <<spaceship, camera, planets, time, dt, keys, show_orbits, frame, call,
                   buffer, z_buffer, stamp, visible>>
    /\ UNCHANGED loader

\* for planet in &planets { if planet.orbit_radius > 0.0 { render_orbit(..) } }
Orbit ==
    /\ pc = "orbits"
    /\ step <= Len(planets)
    /\ IF planets[step].orbit_radius > 0
       THEN \E pts \in OrbitSamples :
               LET r == OrbitPoints(buffer, z_buffer, pts, 5263440)
               IN  /\ buffer' = r.buffer
                   /\ z_buffer' = r.z_buffer
                   /\ stamp' = [i \in Pixels |->
                                   IF i \in pts THEN Stamp(frame, stamp[i].zframe, "orbit", stamp[i].by)
                                   ELSE stamp[i]]
                   /\ last' = [kind |-> "orbit", pts |-> pts]
       ELSE /\ last' = NoWrite
            /\ UNCHANGED <<buffer, z_buffer, stamp>>
    /\ step' = step + 1
    /\ UNCHANGED <<world, draw, log, visible>>
    /\ UNCHANGED loader

OrbitsDone ==
    /\ pc = "orbits"
    /\ step > Len(planets)
    /\ pc' = "bodies"
    /\ step' = 1
    /\ last' = NoWrite
    /\ log' = Done("orbits")
    /\ UNCHANGED <<spaceship, camera, planets, time, dt, keys, show_orbits, frame, call,
                   buffer, z_buffer, draw, stamp, visible>>
    /\ UNCHANGED loader

\* render_sphere for the next planet or moon: its centre projects or it does not
Body ==
    /\ pc = "bodies"
    /\ step <= Len(Bodies(planets))
    /\ \/ /\ last' = [kind |-> "hidden"]
          /\ UNCHANGED <<buffer, z_buffer, stamp, visible>>
       \/ /\ visible < MaxVisible
          /\ \E sp \in FrameSpheres :
                LET r == RenderSphere(buffer, z_buffer, sp)
                IN  /\ buffer' = r.buffer
                    /\ z_buffer' = r.z_buffer
                    /\ stamp' = StampDrawn(r.z_buffer, "sphere")
                    /\ last' = [kind |-> "sphere", arg |-> sp]
          /\ visible' = visible + 1
    /\ log' = [log EXCEPT !.bodies = Append(log.bodies, Bodies(planets)[step])]
    /\ step' = step + 1
    /\ UNCHANGED <<world, draw>>
    /\ UNCHANGED loader

BodiesDone ==
    /\ pc = "bodies"
    /\ step > Len(Bodies(planets))
    /\ pc' = "vehicle"
    /\ step' = 1
    /\ last' = NoWrite
    /\ log' = Done("bodies")
    /\ UNCHANGED <<spaceship, camera, planets, time, dt, keys, show_orbits, frame, call,
                   buffer, z_buffer, draw, stamp, visible>>
    /\ UNCHANGED loader

\* render_spaceship: the next edge, if both its end points project
Edge ==
    /\ pc = "vehicle"
    /\ step <= Len(Edges)
    /\ \/ /\ last' = [kind |-> "hidden"]
          /\ UNCHANGED <<buffer, z_buffer, stamp, visible>>
       \/ /\ visible < MaxVisible
          /\ \E g \in FrameLines :
                LET ln == [x0 |-> g.x0, y0 |-> g.y0, z0 |-> g.z0,
                           x1 |-> g.x1, y1 |-> g.y1, z1 |-> g.z1, color |-> Edges[step][3]]
                    r == DrawLine(buffer, z_buffer, ln)
                IN  /\ buffer' = r.buffer
                    /\ z_buffer' = r.z_buffer
                    /\ stamp' = StampDrawn(r.z_buffer, "line")
                    /\ last' = [kind |-> "line", arg |-> ln]
          /\ visible' = visible + 1
    /\ step' = step + 1
    /\ UNCHANGED <<world, draw, log>>
    /\ UNCHANGED loader

VehicleDone ==
    /\ pc = "vehicle"
    /\ step > Len(Edges)
    /\ pc' = "present"
    /\ step' = 0
    /\ last' = NoWrite
    /\ log' = Done("vehicle")
    /\ UNCHANGED <<spaceship, camera, planets, time, dt, keys, show_orbits, frame, call,
                   buffer, z_buffer, draw, stamp, visible>>
    /\ UNCHANGED loader

\* window.update_with_buffer(&buffer, WIDTH, HEIGHT)
Present ==
    /\ pc = "present"
    /\ pc' = "frame"
    /\ frame' = frame + 1
    /\ log' = NoLog
    /\ UNCHANGED <<spaceship, camera, planets, time, dt, keys, show_orbits, step, call,
                   buffer, z_buffer, draw, last, stamp, visible>>
    /\ UNCHANGED loader

NextFrame ==
    \/ Dynamics \/ Clear \/ Star \/ SkyboxDone \/ Orbit \/ OrbitsDone
    \/ Body \/ BodiesDone \/ Edge \/ VehicleDone \/ Present

SpecFrame == InitFrame /\ [][NextFrame]_vars

\* the order of a frame's phases
PhaseOrder ==
    IF show_orbits THEN << "dynamics", "clear", "starfield", "orbits", "bodies", "vehicle" >>
    ELSE << "dynamics", "clear", "starfield", "bodies", "vehicle" >>

IsPrefix(a, b) == Len(a) <= Len(b) /\ \A k \in 1..Len(a) : a[k] = b[k]

\* in the spheres drawn so far each planet comes after the planet before it and all of
\* that planet's moons, and each moon after the moon before it, or after its planet
InBodyOrder(bs) ==
    \A k \in 1..Len(bs) :
        IF bs[k].moon > 0
        THEN k > 1 /\ bs[k - 1] = [planet |-> bs[k].planet, moon |-> bs[k].moon - 1]
        ELSE IF bs[k].planet = 1 THEN k = 1
        ELSE /\ k > 1
             /\ bs[k - 1] = [planet |-> bs[k].planet - 1,
                             moon |-> Len(planets[bs[k].planet - 1].moons)]

\* C4: the steps of a frame happen in the order dynamics, clear (every colour to 0, every
\* depth to negative infinity), starfield, orbit rings (when show_orbits), each body
\* followed by its moons, vehicle, presentation; after the clear no entry holds a value
\* written in an earlier frame, so none is presented
C4_FrameOrder ==
    /\ IsPrefix(log.phases, PhaseOrder)
    /\ InBodyOrder(log.bodies)
    /\ pc = "skybox" /\ step = 0 =>
          /\ buffer = [i \in Pixels |-> 0]
          /\ z_buffer = [i \in Pixels |-> NEG_INFINITY]
    /\ pc \in {"skybox", "orbits", "bodies", "vehicle", "present"} =>
          \A i \in Pixels : stamp[i].frame = frame /\ stamp[i].zframe = frame
    /\ \A i \in Pixels :
          /\ stamp[i].by = "star" => pc \in {"skybox", "orbits", "bodies", "vehicle", "present", "frame", "clear", "exit"}
          /\ stamp[i].by = "orbit" => pc \in {"orbits", "bodies", "vehicle", "present", "frame", "clear", "exit"}
          /\ stamp[i].by = "sphere" => pc \in {"bodies", "vehicle", "present", "frame", "clear", "exit"}
          /\ stamp[i].by = "line" => pc \in {"vehicle", "present", "frame", "clear", "exit"}
    /\ pc = "present" =>
          /\ log.phases = PhaseOrder
          /\ Len(log.bodies) = Len(Bodies(planets))
          /\ log.bodies[Len(log.bodies)].planet = Len(planets)

\* a second frame is about to be presented, with stars, a ring, a sphere and a line in it
C4_SecondFramePresented ==
    /\ pc = "present"
    /\ frame >= 1
    /\ show_orbits
    /\ \E i \in Pixels : stamp[i].by = "star"
    /\ \E i \in Pixels : stamp[i].by = "orbit"
    /\ \E i \in Pixels : stamp[i].by = "sphere"
    /\ \E i \in Pixels : stamp[i].by = "line"
    /\ \E i \in Pixels : stamp[i].by = "clear"

\* what the step's sphere or line produces on its own; nothing for any other step
Fragments ==
    IF last'.kind \in {"sphere", "line"} THEN Alone(last')
    ELSE [buffer |-> ClearedBuffer, z_buffer |-> ClearedZ]

\* pixel i shows a star or a point of an orbit ring
BaseLayer(i) == stamp[i].by \in {"star", "orbit"} /\ pc # "clear"

\* C5 as stated: render_skybox and render_orbit leave the depth buffer as it is, and a
\* star or orbit-ring pixel keeps its colour until the end of the frame unless a later
\* depth-tested sphere or line fragment covers it, which then always replaces it
C5_BaseLayerKept ==
    [][\E frag \in {Fragments} :
           /\ pc \in {"skybox", "orbits"} => z_buffer' = z_buffer
           /\ \A i \in Pixels :
                 BaseLayer(i) =>
                     /\ buffer'[i] # buffer[i] => frag.z_buffer[i] > NEG_INFINITY
                     /\ frag.z_buffer[i] > NEG_INFINITY => buffer'[i] = frag.buffer[i]
      ]_vars

\* C5, amended: render_skybox and render_orbit leave the depth buffer as it is, and a
\* star or orbit-ring pixel keeps its colour until the end of the frame unless a later
\* star, a later point of an orbit ring, or a later depth-tested sphere or line fragment
\* covers it; such a fragment always replaces it
C5_BaseLayerUnlessCovered ==
    [][\E frag \in {Fragments} :
           /\ pc \in {"skybox", "orbits"} => z_buffer' = z_buffer
           /\ \A i \in Pixels :
                 BaseLayer(i) =>
                     /\ z_buffer[i] = NEG_INFINITY
                     /\ buffer'[i] # buffer[i] =>
                           \/ last'.kind = "star" /\ last'.idx = i
                           \/ last'.kind = "orbit" /\ i \in last'.pts
                           \/ frag.z_buffer[i] > NEG_INFINITY
                     /\ frag.z_buffer[i] > NEG_INFINITY => buffer'[i] = frag.buffer[i]
      ]_vars

\* at the end of a frame a sphere or a line has replaced a star or a ring point in one
\* pixel, and a star and a ring point are still shown in others
C5_CoveredAndKept ==
    /\ pc = "present"
    /\ \E i \in Pixels : stamp[i].by \in {"sphere", "line"} /\ stamp[i].was \in {"star", "orbit"}
    /\ \E i \in Pixels : stamp[i].by = "star"
    /\ \E i \in Pixels : stamp[i].by = "orbit"

----------------------------------------------------------------------------
(* The pitch *)

\* C13: in every state of the frame loop, whatever keys are held or pressed, the
\* pitch is within [-PI/3, PI/3]
C13_PitchBounded ==
    /\ spaceship.pitch <= RoundDiv(PI, 3)
    /\ spaceship.pitch >= -RoundDiv(PI, 3)

\* the arrow keys have just been handled with Up held, in a frame after the first,
\* and the pitch is at its upper limit
C13_AtLimit ==
    /\ pc = "accel"
    /\ step = 1
    /\ frame > 0
    /\ "Up" \in keys
    /\ spaceship.pitch = RoundDiv(PI, 3)

----------------------------------------------------------------------------
(* Planet positions *)

\* the position a planet's orbit_radius and orbit_angle give
OrbitPosition(p) ==
    Vec3(RoundDiv(p.orbit_radius * Cos(p.orbit_angle), Scale),
         0,
         RoundDiv(p.orbit_radius * Sin(p.orbit_angle), Scale))

\* the steps of the frame loop that read a planet's stored position: the warp
\* targets, the collision test of update, and the spheres of the planets and moons
PositionRead == {"warp", "ship_update", "render"}

\* C11: wherever the frame loop reads a planet's position, the position is the one
\* its current orbit_angle gives; and Planet::update advances orbit_angle by
\* orbit_speed * dt and rotation by rotation_speed * dt before it recomputes it
C11_PositionDerived ==
    /\ [](pc \in PositionRead =>
            \A i \in 1..Len(planets) : planets[i].position = OrbitPosition(planets[i]))
    /\ [][pc = "planets" =>
            \A i \in 1..Len(planets) :
               /\ planets'[i].orbit_angle =
                     planets[i].orbit_angle + RoundDiv(planets[i].orbit_speed * dt, 1000)
               /\ planets'[i].rotation =
                     planets[i].rotation + RoundDiv(planets[i].rotation_speed * dt, 1000)
               /\ planets'[i].position = OrbitPosition(planets'[i])]_vars

\* a warp key reads the position of a planet that has moved, in a run whose
\* initial records place planets away from where their orbit angles put them
C11_MovedPlanetRead ==
    /\ pc = "warp"
    /\ step > 1
    /\ WarpKeys[step] \in keys
    /\ planets[step].position # PlanetsNew[step].position
    /\ \E i \in 1..Len(PlanetsNew) : PlanetsNew[i].position # OrbitPosition(PlanetsNew[i])

----------------------------------------------------------------------------
(* project_vertex and its callers on sampled cameras and points: SpecProject *)

\* cameras: the initial one, and one that lags a ship that has turned and climbed
CameraSamples ==
    { CameraNew,
      [smoothed_position |-> Vec3(Fx(15, 1), Fx(8, 1), 0),
       smoothed_yaw |-> Ax(25, 10), smoothed_pitch |-> -Ax(2, 10)] }

\* the point a ahead of the camera and r to its right
Ahead(c, a, r) ==
    VAdd(CameraGetPosition(c),
         VAdd(VMul(CameraGetForward(c), a), VMul(CameraGetRight(c), r)))

\* centres behind the camera, on both sides of the near plane, in view, and far away
CenterSamples(c) ==
    { Ahead(c, a, r) : a \in {-Fx(5, 1), 0, 9, 10, 11, 12, Fx(3, 1), Fx(6, 1), Fx(260, 1)},
                       r \in {0, Fx(1, 1)} }

RadiusSamples == {Fx(1, 2), Fx(2, 1), Fx(5, 1)}

\* ships behind the camera, across its near plane, and ahead of it
ShipSamples(c) ==
    { [SpaceshipNew EXCEPT !.position = Ahead(c, a, 0), !.yaw = c.smoothed_yaw, !.roll = roll] :
        a \in {-Fx(5, 1), Fx(1, 2), Fx(1, 1), Fx(4, 1)}, roll \in {0, Ax(4, 10)} }

InitProject ==
    /\ spaceship = SpaceshipNew
    /\ camera \in CameraSamples
    /\ planets = PlanetsNew
    /\ time = 0
    /\ show_orbits = TRUE
    /\ dt = DT_CAP
    /\ keys = {}
    /\ pc = "project"
    /\ step = 0
    /\ frame = 0
    /\ call = [op |-> "none"]
    /\ RasterNew
    /\ LoaderNew

\* render_sphere for a sampled centre and radius
CallRenderSphere ==
    /\ pc = "project"
    /\ call.op = "none"
    /\ \E center \in CenterSamples(camera), radius \in RadiusSamples :
          LET r == RenderSphereAt(buffer, z_buffer, center, radius, 10 * (step + 1), camera)
          IN  /\ buffer' = r.buffer
              /\ z_buffer' = r.z_buffer
              /\ call' = [op |-> "render_sphere", vertex |-> center, radius |-> radius,
                          p |-> Project(center, camera),
                          pre_buffer |-> buffer, pre_z |-> z_buffer]
    /\ step' = step + 1
    /\ UNCHANGED <<spaceship, camera, planets, time, dt, keys, show_orbits, pc, frame>>
    /\ UNCHANGED <<draw, last, stamp, log, visible>>
    /\ UNCHANGED loader

\* render_orbit for a planet's orbit_radius
CallRenderOrbit ==
    /\ pc = "project"
    /\ call.op = "none"
    /\ \E i \in 2..Len(planets) :
          /\ buffer' = RenderOrbit(buffer, planets[i].orbit_radius, camera, 5263440)
          /\ call' = [op |-> "render_orbit", radius |-> planets[i].orbit_radius,
                      pre_buffer |-> buffer, pre_z |-> z_buffer]
    /\ step' = step + 1
    /\ UNCHANGED <<spaceship, camera, planets, time, dt, keys, show_orbits, pc, frame>>
    /\ UNCHANGED <<z_buffer, draw, last, stamp, log, visible>>
    /\ UNCHANGED loader

\* render_spaceship for a sampled ship
CallRenderSpaceship ==
    /\ pc = "project"
    /\ call.op = "none"
    /\ \E s \in ShipSamples(camera) :
          LET r == RenderSpaceship(buffer, z_buffer, s, camera)
          IN  /\ spaceship' = s
              /\ buffer' = r.buffer
              /\ z_buffer' = r.z_buffer
              /\ call' = [op |-> "render_spaceship", drawn |-> r.drawn,
                          pre_buffer |-> buffer, pre_z |-> z_buffer]
    /\ step' = step + 1
    /\ UNCHANGED <<camera, planets, time, dt, keys, show_orbits, pc, frame>>
    /\ UNCHANGED <<draw, last, stamp, log, visible>>
    /\ UNCHANGED loader

NextProject == CallRenderSphere \/ CallRenderOrbit \/ CallRenderSpaceship

SpecProject == InitProject /\ [][NextProject]_vars

\* the forward-axis component of v as project_vertex computes it
ForwardZ(v, c) == FDot(VSub(v, CameraGetPosition(c)), CameraGetForward(c))

\* the pixels draw_line writes for line ln on cleared buffers
LinePixels(ln) ==
    LET r == DrawLine(ClearedBuffer, ClearedZ, ln)
    IN  {i \in Pixels : r.z_buffer[i] # NEG_INFINITY}

\* the forward components of the ship's transformed vertices, in order
ForwardAll(s, c) ==
    [i \in 1..Len(Vertices) |-> ForwardZ(Transformed(s, Vertices[i]), c)] \o << >>

\* C12: project_vertex fails exactly when the forward component is <= 0.1; then
\* render_sphere changes neither buffer (nor when the centre is more than 250 away),
\* render_orbit plots nothing for the point, and render_spaceship calls draw_line
\* exactly for the edges with both end points projected, so the other edges change
\* neither buffer
C12_FailedProjectionDrawsNothing ==
    /\ call.op = "render_sphere" =>
          /\ call.p.some <=> ForwardZ(call.vertex, camera) > Fx(1, 10)
          /\ \/ ForwardZ(call.vertex, camera) <= Fx(1, 10)
             \/ Length(VSub(call.vertex, CameraGetPosition(camera))) > Fx(250, 1)
             => buffer = call.pre_buffer /\ z_buffer = call.pre_z
    /\ call.op = "render_orbit" =>
          LET plotted == {PixelOf(Project(RingPoint(call.radius, i), camera)) :
                             i \in {j \in 0..(segments - 1) :
                                      ForwardZ(RingPoint(call.radius, j), camera) > Fx(1, 10)}}
          IN  /\ z_buffer = call.pre_z
              /\ \A i \in Pixels : buffer[i] # call.pre_buffer[i] => i \in plotted
              /\ \A j \in 0..(segments - 1) :
                    Project(RingPoint(call.radius, j), camera).some
                       <=> ForwardZ(RingPoint(call.radius, j), camera) > Fx(1, 10)
    /\ call.op = "render_spaceship" =>
          LET fz == ForwardAll(spaceship, camera)
              projected == ProjectedAll(spaceship, camera)
              ahead == {k \in 1..Len(Edges) :
                          fz[Edges[k][1] + 1] > Fx(1, 10) /\ fz[Edges[k][2] + 1] > Fx(1, 10)}
              covered == UNION {LinePixels(EdgeLine(projected, Edges[k])) : k \in ahead}
          IN  /\ {call.drawn[n] : n \in 1..Len(call.drawn)} = ahead
              /\ \A i \in Pixels :
                    buffer[i] # call.pre_buffer[i] \/ z_buffer[i] # call.pre_z[i] => i \in covered

\* render_spaceship has skipped an edge one of whose end points is behind the near
\* plane while the other projects onto the screen, and has drawn other edges
C12_EdgeSkipped ==
    /\ call.op = "render_spaceship"
    /\ buffer # call.pre_buffer
    /\ LET projected == ProjectedAll(spaceship, camera)
       IN  \E k \in 1..Len(Edges) :
              /\ ~projected[Edges[k][1] + 1].some
              /\ projected[Edges[k][2] + 1].some
              /\ PixelOf(projected[Edges[k][2] + 1]) \in Pixels

----------------------------------------------------------------------------
(* Model::load_from_file (src/obj.rs) *)

\* A token is a sequence of characters, a line the sequence of its tokens as
\* split_whitespace yields them; a line that cannot be read (lines() yields Err,
\* as for bytes that are not UTF-8) is marked unreadable.

Digits == << "0", "1", "2", "3", "4", "5", "6", "7", "8", "9" >>

IsDigit(ch) == \E d \in 1..10 : Digits[d] = ch

DigitOf(ch) == (CHOOSE d \in 1..10 : Digits[d] = ch) - 1

USIZE_MAX == 2 ^ UsizeBits - 1

Ok(v) == [ok |-> TRUE, value |-> v]

Err == [ok |-> FALSE]

RECURSIVE DigitsValue(_, _, _)
\* the value of the digits of tok from position i on, acc being the value so far;
\* Err at a character that is not a digit and at a value over max
DigitsValue(tok, i, acc) ==
    IF i > Len(tok) THEN Ok(acc)
    ELSE IF ~IsDigit(tok[i]) THEN Err
    ELSE IF acc * 10 + DigitOf(tok[i]) > USIZE_MAX THEN Err
    ELSE DigitsValue(tok, i + 1, acc * 10 + DigitOf(tok[i]))

\* str::parse::<usize>: an optional '+', then one or more digits, no overflow
ParseUsize(tok) ==
    LET body == IF tok # << >> /\ tok[1] = "+" THEN Tail(tok) ELSE tok
    IN  IF body = << >> THEN Err ELSE DigitsValue(body, 1, 0)

\* 10^n
Pow10(n) == 10 ^ n

\* str::parse::<f32> for decimal literals: an optional sign, digits with at most one
\* '.', at least one digit; the value on the grid
ParseF32(tok) ==
    LET signed == tok # << >> /\ tok[1] \in {"+", "-"}
        body == IF signed THEN Tail(tok) ELSE tok
        dots == {i \in 1..Len(body) : body[i] = "."}
        dot == IF dots = {} THEN Len(body) + 1 ELSE CHOOSE i \in dots : \A j \in dots : i <= j
        int == SubSeq(body, 1, dot - 1)
        frac == SubSeq(body, dot + 1, Len(body))
        iv == DigitsValue(int, 1, 0)
        fv == DigitsValue(frac, 1, 0)
    IN  IF Len(int) + Len(frac) = 0 \/ ~iv.ok \/ ~fv.ok THEN Err
        ELSE LET mag == iv.value * Scale + RoundDiv(fv.value * Scale, Pow10(Len(frac)))
             IN  Ok(IF signed /\ tok[1] = "-" THEN -mag ELSE mag)

\* unwrap_or with a default that is not zero
UnwrapOrOne(p) == IF p.ok THEN p.value ELSE Scale

\* .unwrap_or(0.0)
UnwrapOrZero(p) == IF p.ok THEN p.value ELSE 0

\* parts[i].split('/').next().unwrap(): the token up to its first '/'
LeadingField(tok) ==
    LET slashes == {i \in 1..Len(tok) : tok[i] = "/"}
    IN  IF slashes = {} THEN tok
        ELSE SubSeq(tok, 1, (CHOOSE i \in slashes : \A j \in slashes : i <= j) - 1)

\* index - 1 in usize: with overflow checks the subtraction panics at 0, without
\* them it wraps
IndexMinusOne(index, overflow_checks) ==
    IF index = 0 /\ overflow_checks THEN [panic |-> TRUE]
    ELSE [panic |-> FALSE, value |-> (index - 1) % (USIZE_MAX + 1)]

RECURSIVE FaceIndices(_, _, _, _)
\* the loop over the tokens of an f record from token i on
FaceIndices(parts, i, acc, overflow_checks) ==
    IF i > Len(parts) THEN [panic |-> FALSE, vertex_indices |-> acc]
    ELSE LET index == ParseUsize(LeadingField(parts[i]))
         IN  IF ~index.ok THEN FaceIndices(parts, i + 1, acc, overflow_checks)
             ELSE LET r == IndexMinusOne(index.value, overflow_checks)
                  IN  IF r.panic THEN [panic |-> TRUE]
                      ELSE FaceIndices(parts, i + 1, Append(acc, r.value), overflow_checks)

Vertex(x, y, z) == [x |-> x, y |-> y, z |-> z]

\* the body of the loop over the lines for one line that was read: the model after
\* it, or a panic
LoadLine(m, parts, overflow_checks) ==
    IF parts = << >> THEN [panic |-> FALSE, model |-> m]
    ELSE IF parts[1] = << "v" >>
    THEN IF Len(parts) >= 4
         THEN [panic |-> FALSE,
               model |-> [m EXCEPT !.vertices =
                            Append(@, Vertex(UnwrapOrZero(ParseF32(parts[2])),
                                             UnwrapOrZero(ParseF32(parts[3])),
                                             UnwrapOrZero(ParseF32(parts[4]))))]]
         ELSE [panic |-> FALSE, model |-> m]
    ELSE IF parts[1] = << "f" >>
    THEN LET r == FaceIndices(parts, 2, << >>, overflow_checks)
         IN  IF r.panic THEN [panic |-> TRUE]
             ELSE IF r.vertex_indices # << >>
             THEN [panic |-> FALSE,
                   model |-> [m EXCEPT !.faces = Append(@, [vertex_indices |-> r.vertex_indices])]]
             ELSE [panic |-> FALSE, model |-> m]
    ELSE [panic |-> FALSE, model |-> m]

----------------------------------------------------------------------------
(* load_from_file line by line on sampled files: SpecObj *)

Readable(parts) == [readable |-> TRUE, parts |-> parts]

\* the 1-triangle model: v 0 0 0 / v 1 0 0 / v 0 1 0 / f 1 2 3
TriangleLines ==
    << Readable(<< <<"v">>, <<"0">>, <<"0">>, <<"0">> >>),
       Readable(<< <<"v">>, <<"1">>, <<"0">>, <<"0">> >>),
       Readable(<< <<"v">>, <<"0">>, <<"1">>, <<"0">> >>),
       Readable(<< <<"f">>, <<"1">>, <<"2">>, <<"3">> >>) >>

\* lines of model files: records well formed and not, an empty line, a record of
\* another kind, and a line that cannot be read
ObjLines ==
    { Readable(<< <<"v">>, <<"1">>, <<"-", "2">>, <<"0", ".", "5">> >>),
      Readable(<< <<"v">>, <<"1">>, <<"x">>, <<"1", ".", "2", "5">>, <<"7">> >>),
      Readable(<< <<"v">>, <<"1">>, <<"2">> >>),
      Readable(<< <<"f">>, <<"1">>, <<"2">>, <<"3">> >>),
      Readable(<< <<"f">>, <<"1", "/", "1", "/", "1">>, <<"2", "/", "/", "2">>, <<"1", "2">> >>),
      Readable(<< <<"f">>, <<"1">>, <<"x">>, <<"+", "3">>, <<"-", "1">> >>),
      Readable(<< <<"f">>, <<"x">>, <<"/", "2">> >>),
      Readable(<< <<"f">>, <<"0">>, <<"1">>, <<"2">> >>),
      Readable(<< >>),
      Readable(<< <<"v", "n">>, <<"0">>, <<"0">>, <<"1">> >>),
      [readable |-> FALSE, parts |-> << >>] }

RECURSIVE FilesOfLength(_)
FilesOfLength(n) ==
    IF n = 0 THEN { << >> }
    ELSE {Append(f, l) : f \in FilesOfLength(n - 1), l \in ObjLines}

\* the files handed to load_from_file: the 1-triangle model and every file of at
\* most MaxLines sampled lines, each present or missing
ObjFiles ==
    {[exists |-> e, lines |-> ls] :
        e \in BOOLEAN,
        ls \in {TriangleLines} \cup UNION {FilesOfLength(n) : n \in 0..MaxLines}}

InitObj ==
    /\ spaceship = SpaceshipNew
    /\ camera = CameraNew
    /\ planets = PlanetsNew
    /\ time = 0
    /\ show_orbits = TRUE
    /\ dt = DT_CAP
    /\ keys = {}
    /\ pc = "load"
    /\ step = 0
    /\ frame = 0
    /\ call = CallNone
    /\ RasterNew
    /\ file \in ObjFiles
    /\ line_no = 0
    /\ model = ModelNew
    /\ result = "called"

\* File::open(filename)?; Model::new()
OpenFile ==
    /\ result = "called"
    /\ result' = IF file.exists THEN "running" ELSE "Err"
    /\ UNCHANGED <<file, line_no, model>>
    /\ UNCHANGED <<world, step, raster>>

\* one iteration of for line in reader.lines(): line? and the match on parts[0]
ReadLine ==
    /\ result = "running"
    /\ line_no < Len(file.lines)
    /\ LET line == file.lines[line_no + 1]
       IN  IF ~line.readable
           THEN result' = "Err" /\ UNCHANGED <<line_no, model>>
           ELSE \E overflow_checks \in BOOLEAN :
                   LET r == LoadLine(model, line.parts, overflow_checks)
                   IN  IF r.panic
                       THEN result' = "panic" /\ UNCHANGED <<line_no, model>>
                       ELSE /\ model' = r.model
                            /\ line_no' = line_no + 1
                            /\ UNCHANGED result
    /\ UNCHANGED file
    /\ UNCHANGED <<world, step, raster>>

\* Ok(model)
ReturnOk ==
    /\ result = "running"
    /\ line_no = Len(file.lines)
    /\ result' = "Ok"
    /\ UNCHANGED <<file, line_no, model>>
    /\ UNCHANGED <<world, step, raster>>

NextObj == OpenFile \/ ReadLine \/ ReturnOk

SpecObj == InitObj /\ [][NextObj]_vars

\* the lines the loop has been through
LinesRead == SubSeq(file.lines, 1, line_no)

IsRecord(line, tag) == line.readable /\ line.parts # << >> /\ line.parts[1] = << tag >>

\* the tokens of an f record whose leading field parses as an unsigned integer
ParsableTokens(line) ==
    SelectSeq(Tail(line.parts), LAMBDA tok : ParseUsize(LeadingField(tok)).ok)

\* the vertex a v record with at least three coordinate fields stands for, a field
\* that is not a number counting as 0.0
VertexOfRecord(line) ==
    LET field(i) == IF ParseF32(line.parts[i]).ok THEN ParseF32(line.parts[i]).value ELSE 0
    IN  Vertex(field(2), field(3), field(4))

\* the face an f record stands for: each parsable index minus one
FaceOfRecord(line) ==
    LET toks == ParsableTokens(line)
    IN  [vertex_indices |-> [i \in 1..Len(toks) |-> ParseUsize(LeadingField(toks[i])).value - 1]]

\* the vertices the v records among ls stand for, in order
VerticesOf(ls) ==
    LET vs == SelectSeq(ls, LAMBDA l : IsRecord(l, "v") /\ Len(l.parts) >= 4)
    IN  [i \in 1..Len(vs) |-> VertexOfRecord(vs[i])]

\* the faces the f records among ls with a parsable index stand for, in order
FacesOf(ls) ==
    LET fs == SelectSeq(ls, LAMBDA l : IsRecord(l, "f") /\ ParsableTokens(l) # << >>)
    IN  [i \in 1..Len(fs) |-> FaceOfRecord(fs[i])]

\* C14: the model holds the records read so far in file order: a vertex for every
\* v record with at least three coordinate fields, a face of the parsable indices
\* minus one for every f record with a parsable index, for every parsable index
\* including 0; the 1-triangle model loads as 3 vertices and the face [0,1,2]
C14_RecordsInFileOrder ==
    /\ result # "panic"
    /\ result \in {"running", "Ok"} =>
          /\ model.vertices = VerticesOf(LinesRead)
          /\ SelectSeq(model.faces, LAMBDA f : f.vertex_indices # << >>) = FacesOf(LinesRead)
    /\ result = "Ok" /\ file.lines = TriangleLines =>
          /\ Len(model.vertices) = 3
          /\ model.faces = << [vertex_indices |-> << 0, 1, 2 >>] >>

\* a v record with fewer than three coordinate fields, or an f record with no
\* parsable index
Malformed(line) ==
    \/ IsRecord(line, "v") /\ Len(line.parts) < 4
    \/ IsRecord(line, "f") /\ ParsableTokens(line) = << >>

\* C15 as stated: the load goes on only for a file that opened and lines that are
\* not malformed, a field that is not a number being loaded as 0.0
C15_MalformedAborts ==
    result \in {"running", "Ok"} =>
        /\ file.exists
        /\ \A i \in 1..line_no : ~Malformed(file.lines[i])
        /\ model.vertices = VerticesOf(LinesRead)

\* C15, amended: the load returns an error exactly for a file that does not open
\* and for a line that cannot be read; a v record with fewer than three coordinate
\* fields and an f record with no parsable index add nothing and the load goes on;
\* a field of a well-formed v record that is not a number is loaded as 0.0
C15_OnlyUnreadableAborts ==
    /\ result \in {"running", "Ok"} =>
          /\ file.exists
          /\ \A i \in 1..line_no : file.lines[i].readable
          /\ model.vertices = VerticesOf(LinesRead)
          /\ Len(model.faces) = Len(FacesOf(LinesRead))
    /\ result = "Err" =>
          \/ ~file.exists
          \/ line_no < Len(file.lines) /\ ~file.lines[line_no + 1].readable

\* a load has returned Ok for a file with a short v record, an f record with no
\* parsable index, and a v record one of whose fields is not a number
C15_SkippedAndLoaded ==
    /\ result = "Ok"
    /\ \E i \in 1..line_no : IsRecord(file.lines[i], "v") /\ Len(file.lines[i].parts) < 4
    /\ \E i \in 1..line_no : IsRecord(file.lines[i], "f") /\ ParsableTokens(file.lines[i]) = << >>
    /\ \E i \in 1..line_no :
          /\ IsRecord(file.lines[i], "v")
          /\ Len(file.lines[i].parts) >= 4
          /\ \E k \in 2..4 : ~ParseF32(file.lines[i].parts[k]).ok
    /\ Len(model.vertices) = 1

----------------------------------------------------------------------------
(* Color and apply_planet_shader *)

\* Color::new(r, g, b)
Color(r, g, b) == [r |-> r, g |-> g, b |-> b]

\* one channel of Color::from_float for the value n / d: clamped to [0, 1], times
\* 255, cast to u8
Channel(n, d) == IF n <= 0 THEN 0 ELSE Min2(255, n \div d)

\* Color::mul(factor), factor on the grid
ColorMul(c, factor) ==
    Color(Channel(c.r * factor, Scale), Channel(c.g * factor, Scale), Channel(c.b * factor, Scale))

\* Color::lerp(other, t), t on the grid: t is clamped to [0, 1] first
ColorLerp(c, other, t) ==
    LET tc == Max2(0, Min2(Scale, t))
    IN  Color(Channel(c.r * (Scale - tc) + other.r * tc, Scale),
              Channel(c.g * (Scale - tc) + other.g * tc, Scale),
              Channel(c.b * (Scale - tc) + other.b * tc, Scale))

ShaderTypes == {"Sun", "Earth", "GasGiant", "Ice", "Desert", "Lava", "Purple", "Moon"}

\* light_intensity with no floor under it
Unfloored(light_intensity, floor) == light_intensity

\* light_intensity.max(floor)
Floored(light_intensity, floor) == Max2(light_intensity, floor)

\* What a shader computes before it applies the light.  The fractal samples (fbm of
\* the normal) are inputs: in.u is the first sample the shader takes, in.v the
\* second; the sines of normal.y and time are computed.
PatternColor(shader, in) ==
    CASE shader = "Sun" ->
            LET glow == Fx(9, 10) + RoundDiv(Sin(2 * in.time) * Fx(1, 10), Scale)
                t == RoundDiv((RoundDiv(in.normal_y, 2) + Fx(1, 2)) * glow, Scale)
            IN  ColorLerp(Color(255, 240, 200), Color(255, 180, 80), t)
      [] shader = "Earth" ->
            LET base == IF in.u > Fx(1, 2) THEN Color(60, 150, 80) ELSE Color(30, 80, 180)
            IN  IF in.v > Fx(6, 10) THEN ColorLerp(base, Color(220, 220, 240), Fx(7, 10)) ELSE base
      [] shader = "GasGiant" ->
            ColorLerp(Color(220, 180, 120), Color(180, 140, 90), in.u + RoundDiv(in.v * 3, 10))
      [] shader = "Ice" -> ColorLerp(Color(180, 220, 255), Color(120, 180, 240), in.u)
      [] shader = "Desert" -> ColorLerp(Color(220, 160, 100), Color(180, 120, 60), in.u)
      [] shader = "Lava" ->
            LET pulse == RoundDiv(Sin(3 * in.time + 10 * in.u * (AScale \div Scale)), 2) + Fx(1, 2)
                base == ColorLerp(Color(80, 30, 20), Color(255, 80, 30), in.u)
            IN  ColorLerp(base, Color(255, 200, 100), RoundDiv(pulse * in.u, Scale))
      [] shader = "Purple" ->
            LET bands == RoundDiv(Sin(8 * in.normal_y * (AScale \div Scale) + in.time \div 10), 2) + Fx(1, 2)
            IN  ColorLerp(Color(150, 100, 200), Color(100, 60, 160), bands)
      [] shader = "Moon" -> ColorLerp(Color(180, 180, 180), Color(120, 120, 120), in.u)

\* apply_planet_shader(normal, light_intensity, shader, time)
ApplyPlanetShader(shader, in, light_intensity) ==
    LET pattern == PatternColor(shader, in)
    IN  CASE shader = "Sun" -> pattern
          [] shader = "Earth" -> ColorMul(pattern, Floored(light_intensity, Fx(2, 10)))
          [] shader = "GasGiant" -> ColorMul(pattern, Floored(light_intensity, Fx(15, 100)))
          [] shader = "Ice" -> ColorMul(pattern, Floored(light_intensity, Fx(3, 10)))
          [] shader = "Desert" -> ColorMul(pattern, Floored(light_intensity, Fx(2, 10)))
          [] shader = "Lava" -> ColorMul(pattern, Floored(light_intensity, Fx(3, 10)))
          [] shader = "Purple" -> ColorMul(pattern, Floored(light_intensity, Fx(15, 100)))
          [] shader = "Moon" -> ColorMul(pattern, Floored(light_intensity, Fx(1, 10)))

----------------------------------------------------------------------------
(* apply_planet_shader on sampled normals, lights and times: SpecShader *)

\* fractal samples (below 0, within [0, 1] on both sides of the thresholds), the
\* normal's y, and times in ms
ShaderInputs ==
    [u : {-Fx(4, 10), 0, Fx(55, 100), Fx(1, 1)},
     v : {-Fx(2, 10), Fx(7, 10)},
     normal_y : {-Fx(1, 1), 0, Fx(6, 10)},
     time : {0, 500, 2000}]

\* light intensities: the clamped dot product lies in [0, 1]; the values outside are
\* there for the function taken by itself
LightSamples == {-Fx(1, 2), 0, Fx(1, 10), Fx(25, 100), Fx(1, 2), Fx(1, 1), Fx(3, 2)}

InitShader ==
    /\ spaceship = SpaceshipNew
    /\ camera = CameraNew
    /\ planets = PlanetsNew
    /\ time = 0
    /\ show_orbits = TRUE
    /\ dt = DT_CAP
    /\ keys = {}
    /\ pc = "shade"
    /\ step = 0
    /\ frame = 0
    /\ call = [op |-> "none"]
    /\ RasterNew
    /\ LoaderNew

CallShader ==
    /\ pc = "shade"
    /\ call.op = "none"
    /\ \E shader \in ShaderTypes, in \in ShaderInputs, light \in LightSamples :
          call' = [op |-> "apply_planet_shader", shader |-> shader, in |-> in,
                   light_intensity |-> light,
                   color |-> ApplyPlanetShader(shader, in, light)]
    /\ step' = step + 1
    /\ UNCHANGED <<spaceship, camera, planets, time, dt, keys, show_orbits, pc, frame>>
    /\ UNCHANGED raster
    /\ UNCHANGED loader

NextShader == CallShader

SpecShader == InitShader /\ [][NextShader]_vars

\* the ambient floors
AmbientFloor(shader) ==
    CASE shader = "Earth" -> Fx(2, 10)
      [] shader = "GasGiant" -> Fx(15, 100)
      [] shader = "Ice" -> Fx(3, 10)
      [] shader = "Desert" -> Fx(2, 10)
      [] shader = "Lava" -> Fx(3, 10)
      [] shader = "Purple" -> Fx(15, 100)
      [] shader = "Moon" -> Fx(1, 10)

Black == Color(0, 0, 0)

\* C16 as stated: for each of the eight materials the colour returned is the pattern
\* colour multiplied by max(light_intensity, floor) for a floor in [0.1, 0.3], and no
\* material returns black
C16_EveryMaterialLit ==
    call.op = "apply_planet_shader" =>
        /\ \E floor \in Fx(1, 10)..Fx(3, 10) :
              call.color = ColorMul(PatternColor(call.shader, call.in),
                                    Max2(call.light_intensity, floor))
        /\ call.color # Black

\* C16, amended: for each of the seven materials other than Sun the colour returned
\* is the pattern colour multiplied by max(light_intensity, floor), the floor being
\* the material's own and within [0.1, 0.3]; Sun returns its pattern colour
\* unmultiplied; no material returns black
C16_AllButSunLit ==
    call.op = "apply_planet_shader" =>
        /\ call.shader # "Sun" =>
              /\ AmbientFloor(call.shader) \in Fx(1, 10)..Fx(3, 10)
              /\ call.color = ColorMul(PatternColor(call.shader, call.in),
                                       Max2(call.light_intensity, AmbientFloor(call.shader)))
        /\ call.shader = "Sun" => call.color = PatternColor("Sun", call.in)
        /\ call.color # Black

\* a material other than Sun has been shaded with no light on it, and the floor has
\* kept a darkened colour
C16_DarkSide ==
    /\ call.op = "apply_planet_shader"
    /\ call.shader = "Lava"
    /\ call.light_intensity = 0
    /\ call.color # PatternColor(call.shader, call.in)
    /\ call.color # Black

----------------------------------------------------------------------------
(* render_skybox called again and again on whatever the buffer holds: SpecSky *)

\* what the buffer may hold when render_skybox is called
PriorBuffers ==
    {[i \in Pixels |-> c] : c \in {0, 5263440, 16777215, 14211288, 7895160, 255}}
        \cup {[i \in Pixels |-> i + 1], [i \in Pixels |-> 65793 * (120 + i)]}

InitSky ==
    /\ spaceship = SpaceshipNew
    /\ camera = CameraNew
    /\ planets = PlanetsNew
    /\ time = 0
    /\ show_orbits = TRUE
    /\ dt = DT_CAP
    /\ keys = {}
    /\ pc = "sky"
    /\ step = 0
    /\ frame = 0
    /\ call = [op |-> "none", writes |-> << >>]
    /\ RasterNew
    /\ LoaderNew

\* the rest of a frame, and of the frames between two calls: the buffer is cleared
\* and drawn over
DrawOver ==
    /\ pc = "sky"
    /\ \E b \in PriorBuffers : buffer' = b
    /\ buffer' # buffer
    /\ UNCHANGED <<world, step, z_buffer, draw, last, stamp, log, visible>>
    /\ UNCHANGED loader

\* render_skybox(&mut buffer)
CallRenderSkybox ==
    /\ pc = "sky"
    /\ step < MaxSkies
    /\ LET r == RenderSkybox(buffer)
       IN  /\ buffer' = r.buffer
           /\ call' = [op |-> "render_skybox", writes |-> r.writes,
                       before |-> call.writes, pre_buffer |-> buffer]
    /\ step' = step + 1
    /\ UNCHANGED <<spaceship, camera, planets, time, dt, keys, show_orbits, pc, frame>>
    /\ UNCHANGED <<z_buffer, draw, last, stamp, log, visible>>
    /\ UNCHANGED loader

NextSky == DrawOver \/ CallRenderSkybox

SpecSky == InitSky /\ [][NextSky]_vars

\* the grey of brightness v: v in each of the three bytes
IsStarGrey(c) == \E v \in 120..255 : c = v * 65536 + v * 256 + v

\* C17: a call of render_skybox writes one grey per star, NumStars in all, and from
\* the second call on the same greys to the same pixel indices in the same order as
\* the call before, whatever the buffer held; the buffer then holds, at each index
\* written, the last grey written there, and elsewhere what it held
C17_StarfieldStable ==
    [][pc = "sky" /\ step' = step + 1 =>
          /\ Len(call'.writes) = NumStars
          /\ \A n \in 1..NumStars :
                call'.writes[n][1] \in Pixels /\ IsStarGrey(call'.writes[n][2])
          /\ call.op = "render_skybox" => call'.writes = call.writes
          /\ \A i \in Pixels :
                LET ns == {n \in 1..NumStars : call'.writes[n][1] = i}
                IN  IF ns = {} THEN buffer'[i] = buffer[i]
                    ELSE buffer'[i] = call'.writes[CHOOSE n \in ns : \A k \in ns : k <= n][2]]_vars

\* render_skybox has been called a second time, on a buffer that is not the one the
\* first call was given, and has changed it
C17_SecondCall ==
    /\ call.op = "render_skybox"
    /\ call.before # << >>
    /\ step = MaxSkies
    /\ buffer # call.pre_buffer
    /\ \E i \in Pixels : call.pre_buffer[i] # 0 /\ ~IsStarGrey(call.pre_buffer[i])

-----------------------------------------------------------------------------
(* The two Bresenham loops: draw_line of main.rs and line of triangle.rs *)

\* line of triangle.rs as it enters its loop
TriLineStart(ln) ==
    LET dx == AbsDiff(ln.x1, ln.x0)
        dy == AbsDiff(ln.y1, ln.y0)
    IN  [kind |-> "tri_line", ln |-> ln, dx |-> dx, dy |-> dy,
         sx |-> IF ln.x0 < ln.x1 THEN 1 ELSE -1,
         sy |-> IF ln.y0 < ln.y1 THEN 1 ELSE -1,
         err |-> Wrap(dx - dy), x |-> ln.x0, y |-> ln.y0]

\* the point of one iteration of line: x0 >= 0 && x0 < 800 && y0 >= 0 && y0 < 600,
\* on the model's screen
TriLinePixel(b, d) ==
    IF OnScreen(d.x, d.y) THEN [b EXCEPT ![d.y * WIDTH + d.x] = d.ln.color] ELSE b

\* the rest of the iteration of line: the break at the end point, the error term
TriLineAdvance(d) ==
    LET e2 == Wrap(2 * d.err)
        movex == e2 > Wrap(-d.dy)
        movey == e2 < d.dx
        err1 == IF movex THEN Wrap(d.err - d.dy) ELSE d.err
    IN  IF d.x = d.ln.x1 /\ d.y = d.ln.y1 THEN NoDraw
        ELSE [d EXCEPT !.err = IF movey THEN Wrap(err1 + d.dx) ELSE err1,
                       !.x = IF movex THEN Wrap(d.x + d.sx) ELSE d.x,
                       !.y = IF movey THEN Wrap(d.y + d.sy) ELSE d.y]

\* the coordinates the casts of render_spaceship and of triangle can produce: the
\* two ends of the i32 range and values on and near the screen
EndXs == {I32_MIN, -3, 0, 2, I32_MAX}

EndYs == {I32_MIN, 0, 1, I32_MAX}

LongLines ==
    { [x0 |-> a, y0 |-> b, z0 |-> Fx(5, 1), x1 |-> c, y1 |-> d, z1 |-> Fx(6, 1), color |-> 7] :
        a \in EndXs, b \in EndYs, c \in EndXs, d \in EndYs }

\* the iterations after which a loop of the model is left running
MaxIterations == 2 ^ (I32Bits + 1)

NoLineCall == [op |-> "none"]

\* the call as it starts: checks is TRUE in a build with overflow checks
LineCall(op, ln, checks) ==
    [op |-> op, ln |-> ln, checks |-> checks,
     outcome |-> IF checks /\ LineStartOverflows(ln) THEN "panic" ELSE "running",
     wrapped |-> LineStartOverflows(ln), visited |-> 0,
     first |-> [x |-> 0, y |-> 0, z |-> 0, step |-> 0],
     final |-> [x |-> 0, y |-> 0, z |-> 0, step |-> 0]]

\* the call after the iteration at the position d, which leaves the loop at nxt
LineVisit(d, z, st, nxt) ==
    LET pt == [x |-> d.x, y |-> d.y, z |-> z, step |-> st]
        at_end == d.x = d.ln.x1 /\ d.y = d.ln.y1
        over == ~at_end /\ ErrUpdateOverflows(d)
    IN  [call EXCEPT !.visited = call.visited + 1,
                     !.first = IF call.visited = 0 THEN pt ELSE call.first,
                     !.final = pt,
                     !.wrapped = call.wrapped \/ over,
                     !.outcome = IF call.checks /\ over THEN "panic"
                                 ELSE IF nxt.kind = "none" THEN "returned"
                                 ELSE "running"]

InitLine ==
    /\ spaceship = SpaceshipNew
    /\ camera = CameraNew
    /\ planets = PlanetsNew
    /\ time = 0
    /\ show_orbits = TRUE
    /\ dt = DT_CAP
    /\ keys = {}
    /\ pc = "line"
    /\ step = 0
    /\ frame = 0
    /\ call = NoLineCall
    /\ RasterNew
    /\ LoaderNew

\* draw_line(buffer, z_buffer, x0, y0, z0, x1, y1, z1, color) up to its loop
CallDrawLine ==
    /\ pc = "line"
    /\ call.op = "none"
    /\ \E ln \in LongLines, checks \in BOOLEAN :
        /\ call' = LineCall("draw_line", ln, checks)
        /\ draw' = IF call'.outcome = "panic" THEN NoDraw ELSE LineStart(ln)
    /\ UNCHANGED <<spaceship, camera, planets, time, dt, keys, show_orbits, pc, frame>>
    /\ UNCHANGED <<step, buffer, z_buffer, last, stamp, log, visible>>
    /\ UNCHANGED loader

\* one iteration of draw_line's loop
LoopDrawLine ==
    /\ pc = "line"
    /\ draw.kind = "line"
    /\ LET r == LinePixel(buffer, z_buffer, draw)
       IN  /\ buffer' = r.buffer
           /\ z_buffer' = r.z_buffer
    /\ call' = LineVisit(draw, LineDepth(draw), draw.step, LineAdvance(draw))
    /\ draw' = IF call'.outcome = "running" THEN LineAdvance(draw) ELSE NoDraw
    /\ UNCHANGED <<spaceship, camera, planets, time, dt, keys, show_orbits, pc, frame>>
    /\ UNCHANGED <<step, last, stamp, log, visible>>
    /\ UNCHANGED loader

\* line(framebuffer, x0, y0, x1, y1, color) up to its loop
CallLine ==
    /\ pc = "line"
    /\ call.op = "none"
    /\ \E ln \in LongLines, checks \in BOOLEAN :
        /\ call' = LineCall("line", ln, checks)
        /\ draw' = IF call'.outcome = "panic" THEN NoDraw ELSE TriLineStart(ln)
    /\ UNCHANGED <<spaceship, camera, planets, time, dt, keys, show_orbits, pc, frame>>
    /\ UNCHANGED <<step, buffer, z_buffer, last, stamp, log, visible>>
    /\ UNCHANGED loader

\* one iteration of line's loop
LoopLine ==
    /\ pc = "line"
    /\ draw.kind = "tri_line"
    /\ call.visited < MaxIterations
    /\ buffer' = TriLinePixel(buffer, draw)
    /\ call' = LineVisit(draw, 0, call.visited, TriLineAdvance(draw))
    /\ draw' = IF call'.outcome = "running" THEN TriLineAdvance(draw) ELSE NoDraw
    /\ UNCHANGED <<spaceship, camera, planets, time, dt, keys, show_orbits, pc, frame>>
    /\ UNCHANGED <<step, z_buffer, last, stamp, log, visible>>
    /\ UNCHANGED loader

NextLine == CallDrawLine \/ LoopDrawLine \/ CallLine \/ LoopLine

SpecLine == InitLine /\ [][NextLine]_vars

\* max(|x1 - x0|, |y1 - y0|)
Span(ln) == Max2(Abs(ln.x1 - ln.x0), Abs(ln.y1 - ln.y0))

\* C18: both Bresenham loops end at (x1, y1) after exactly max(|x1 - x0|, |y1 - y0|)
\* steps for every pair of endpoints: no call is cut short, no loop runs past that
\* count, a returned call visited (x0, y0) first and (x1, y1) last, and draw_line
\* met the first point at step 0 with depth z0 and the last one at step == steps
\* with depth z1 (a line of length zero: one point, with depth z0)
C18_LoopsReachEndPoint ==
    (pc = "line" /\ call.op # "none") =>
        /\ call.outcome # "panic"
        /\ call.visited <= Span(call.ln) + 1
        /\ call.outcome = "returned" =>
            /\ call.visited = Span(call.ln) + 1
            /\ call.first.x = call.ln.x0 /\ call.first.y = call.ln.y0
            /\ call.final.x = call.ln.x1 /\ call.final.y = call.ln.y1
            /\ call.op = "draw_line" =>
                /\ call.first.step = 0 /\ call.first.z = call.ln.z0
                /\ Span(call.ln) > 0 =>
                    /\ call.final.step = Max2(Span(call.ln), 1)
                    /\ call.final.z = call.ln.z1

\* C19: in draw_line no operation on an i32 leaves the i32 range, whatever i32
\* coordinates the end points have
C19_DrawLineStaysInRange ==
    (pc = "line" /\ call.op = "draw_line") => (call.outcome # "panic" /\ ~call.wrapped)

-----------------------------------------------------------------------------
(* The roll *)

\* v lies between a and b, ends included
Between(v, a, b) == (a <= v /\ v <= b) \/ (b <= v /\ v <= a)

\* C20: dt is at most 0.033 and target_roll is -0.4, 0 or 0.4 in every state, the
\* roll is within [-0.4, 0.4] in every state, after warp_to too, and each
\* Spaceship::update leaves the roll between its old value and target_roll
C20_RollEased ==
    /\ [](/\ dt <= DT_CAP
          /\ spaceship.target_roll \in {-Ax(4, 10), 0, Ax(4, 10)}
          /\ spaceship.roll >= -Ax(4, 10)
          /\ spaceship.roll <= Ax(4, 10))
    /\ [][pc = "ship_update" =>
            Between(spaceship'.roll, spaceship.roll, spaceship.target_roll)]_vars

\* Spaceship::update has just moved a roll that was banked to the right towards
\* the target_roll of a Left key, and has not reached it
C20_RollOnItsWay ==
    /\ pc = "camera_update"
    /\ call.op = "update"
    /\ spaceship.target_roll = -Ax(4, 10)
    /\ call.pre.roll > 0
    /\ spaceship.roll < call.pre.roll
    /\ spaceship.roll > spaceship.target_roll

-----------------------------------------------------------------------------
(* The depth buffer at the end of a frame's draws: SpecDepth *)

InitDepth ==
    /\ spaceship = SpaceshipNew
    /\ camera = CameraNew
    /\ planets = PlanetsNew
    /\ time = 0
    /\ show_orbits = TRUE
    /\ dt = DT_CAP
    /\ keys = {}
    /\ pc = "frame_start"
    /\ step = 0
    /\ frame = 0
    /\ call = CallNone
    /\ RasterNew
    /\ LoaderNew

\* buffer.fill(0x000000); z_buffer.fill(f32::NEG_INFINITY); render_skybox; the
\* orbit rings, whose points project to the pixels pts
Backdrop ==
    /\ pc = "frame_start"
    /\ frame < MaxFrames
    /\ \E pts \in OrbitSamples :
          LET sky == RenderSkybox(ClearedBuffer)
              r == OrbitPoints(sky.buffer, ClearedZ, pts, 5263440)
          IN  /\ buffer' = r.buffer
              /\ z_buffer' = r.z_buffer
    /\ log' = [draws |-> << >>]
    /\ pc' = "planets_drawn"
    /\ UNCHANGED <<spaceship, camera, planets, time, dt, keys, show_orbits, frame, call>>
    /\ UNCHANGED <<step, draw, last, stamp, visible>>
    /\ UNCHANGED loader

\* render_sphere for a planet or moon whose centre projects
DrawBody ==
    /\ pc = "planets_drawn"
    /\ Len(log.draws) < MaxFragments
    /\ \E sp \in SphereSamples :
          LET r == RenderSphere(buffer, z_buffer, sp)
          IN  /\ buffer' = r.buffer
              /\ z_buffer' = r.z_buffer
              /\ log' = [draws |-> Append(log.draws, [kind |-> "sphere", arg |-> sp])]
    /\ UNCHANGED world
    /\ UNCHANGED <<step, draw, last, stamp, visible>>
    /\ UNCHANGED loader

\* the loop over the planets ends; render_spaceship begins
BodiesDrawn ==
    /\ pc = "planets_drawn"
    /\ pc' = "edges_drawn"
    /\ UNCHANGED <<spaceship, camera, planets, time, dt, keys, show_orbits, frame, call, step>>
    /\ UNCHANGED raster
    /\ UNCHANGED loader

\* draw_line for an edge of the vehicle whose end points both project
DrawEdge ==
    /\ pc = "edges_drawn"
    /\ Len(log.draws) < MaxFragments
    /\ \E ln \in LineSamples :
          LET r == DrawLine(buffer, z_buffer, ln)
          IN  /\ buffer' = r.buffer
              /\ z_buffer' = r.z_buffer
              /\ log' = [draws |-> Append(log.draws, [kind |-> "line", arg |-> ln])]
    /\ UNCHANGED world
    /\ UNCHANGED <<step, draw, last, stamp, visible>>
    /\ UNCHANGED loader

\* render_spaceship returns: the frame's draws are done
EdgesDrawn ==
    /\ pc = "edges_drawn"
    /\ pc' = "frame_end"
    /\ UNCHANGED <<spaceship, camera, planets, time, dt, keys, show_orbits, frame, call, step>>
    /\ UNCHANGED raster
    /\ UNCHANGED loader

\* window.update_with_buffer, and the loop goes round
PresentDepth ==
    /\ pc = "frame_end"
    /\ pc' = "frame_start"
    /\ frame' = frame + 1
    /\ UNCHANGED <<spaceship, camera, planets, time, dt, keys, show_orbits, call, step>>
    /\ UNCHANGED raster
    /\ UNCHANGED loader

NextDepth == Backdrop \/ DrawBody \/ BodiesDrawn \/ DrawEdge \/ EdgesDrawn \/ PresentDepth

SpecDepth == InitDepth /\ [][NextDepth]_vars

\* what each depth-tested draw of the frame produces on its own, in draw order
FrameFragments == [k \in 1..Len(log.draws) |-> Alone(log.draws[k])] \o << >>

\* the draws among fr that cover pixel i, by their place in draw order
Covering(fr, i) == {k \in 1..Len(fr) : fr[k].z_buffer[i] > NEG_INFINITY}

\* the first draw, in draw order, whose fragment at pixel i is as deep as any
FirstDeepest(fr, i) ==
    CHOOSE k \in Covering(fr, i) :
        /\ \A j \in Covering(fr, i) : fr[j].z_buffer[i] <= fr[k].z_buffer[i]
        /\ \A j \in Covering(fr, i) : fr[j].z_buffer[i] = fr[k].z_buffer[i] => k <= j

\* C21: at the end of a frame's draws, a pixel no sphere or line fragment covered has
\* the depth negative infinity and is black, a star grey or the orbit colour; a covered
\* pixel has the greatest depth of the fragments that covered it in the frame and the
\* colour of the first fragment in draw order with that depth
C21_DeepestFragmentShown ==
    pc = "frame_end" =>
        LET fr == FrameFragments
        IN  \A i \in Pixels :
                IF Covering(fr, i) = {}
                THEN /\ z_buffer[i] = NEG_INFINITY
                     /\ buffer[i] = 0 \/ IsStarGrey(buffer[i]) \/ buffer[i] = 5263440
                ELSE LET k == FirstDeepest(fr, i)
                     IN  /\ z_buffer[i] = fr[k].z_buffer[i]
                         /\ buffer[i] = fr[k].buffer[i]

\* the second frame's draws are done: in one pixel a later fragment was less deep than
\* the one shown, in one a later fragment was as deep as the one shown, in one an
\* earlier fragment was less deep, and one pixel no fragment covered shows a star
C21_ContestedPixels ==
    /\ pc = "frame_end"
    /\ frame = 1
    /\ LET fr == FrameFragments
       IN  /\ \E i \in Pixels : \E j \in Covering(fr, i) :
                  /\ j > FirstDeepest(fr, i)
                  /\ fr[j].z_buffer[i] < fr[FirstDeepest(fr, i)].z_buffer[i]
           /\ \E i \in Pixels : \E j \in Covering(fr, i) :
                  /\ j > FirstDeepest(fr, i)
                  /\ fr[j].z_buffer[i] = fr[FirstDeepest(fr, i)].z_buffer[i]
           /\ \E i \in Pixels : \E j \in Covering(fr, i) : j < FirstDeepest(fr, i)
           /\ \E i \in Pixels : Covering(fr, i) = {} /\ IsStarGrey(buffer[i])

====
